---- MODULE Spec2Model ----
(***************************************************************************)
(* R.A.R.E. Award website: the storage adapter (js/local-storage.js) and   *)
(* the multi-step form controller (js/form-handler.js) as state machines.  *)
(*                                                                         *)
(* Text is a sequence of one-character strings, so that what               *)
(* JSON.stringify writes and what JSON.parse reads are computed, character *)
(* by character, and never assumed to be inverse to each other.            *)
(***************************************************************************)
EXTENDS Integers, Sequences, FiniteSets, TLC

(***************************************************************************)
(* JavaScript values.                                                      *)
(***************************************************************************)
Undef == [t |-> "undef"]
JNull == [t |-> "null"]
JFunction == [t |-> "function"]
JBool(b) == [t |-> "bool", v |-> b]
JNum(n) == [t |-> "num", v |-> n]
JStr(s) == [t |-> "str", v |-> s]
JArr(xs) == [t |-> "arr", v |-> xs]
JObj(ms) == [t |-> "obj", v |-> ms]
Member(k, v) == [k |-> k, v |-> v]

\* obj[key] of a parsed object: the member's value, or undefined.
RECURSIVE PropFrom(_, _, _)
PropFrom(ms, key, i) ==
    IF i > Len(ms) THEN Undef
    ELSE IF ms[i].k = key THEN ms[i].v
    ELSE PropFrom(ms, key, i + 1)

Prop(o, key) == IF o.t = "obj" THEN PropFrom(o.v, key, 1) ELSE Undef

\* JavaScript truthiness of a value (the `a && b`, `a || b`, `if (a)` tests).
Truthy(x) ==
    CASE x.t = "undef" -> FALSE
      [] x.t = "null" -> FALSE
      [] x.t = "bool" -> x.v
      [] x.t = "num" -> x.v # 0
      [] x.t = "str" -> x.v # <<>>
      [] OTHER -> TRUE

(***************************************************************************)
(* JSON.stringify on the values above.                                     *)
(***************************************************************************)
DigitChars == <<"0", "1", "2", "3", "4", "5", "6", "7", "8", "9">>
DigitSet == {DigitChars[i] : i \in 1..10}

RECURSIVE Digits(_)
Digits(n) ==
    IF n < 10 THEN <<DigitChars[n + 1]>>
    ELSE Digits(n \div 10) \o <<DigitChars[(n % 10) + 1]>>

RECURSIVE EscapeFrom(_, _)
EscapeFrom(s, i) ==
    IF i > Len(s) THEN <<>>
    ELSE (CASE s[i] = "\"" -> <<"\\", "\"">>
            [] s[i] = "\\" -> <<"\\", "\\">>
            [] s[i] = "\n" -> <<"\\", "n">>
            [] OTHER -> <<s[i]>>) \o EscapeFrom(s, i + 1)

Quote(s) == <<"\"">> \o EscapeFrom(s, 1) \o <<"\"">>

TextNull == <<"n", "u", "l", "l">>
TextTrue == <<"t", "r", "u", "e">>
TextFalse == <<"f", "a", "l", "s", "e">>

\* Values JSON.stringify gives no text for (undefined, a function).
Unserializable(x) == x.t \in {"undef", "function"}

RECURSIVE JSONStringify(_)
RECURSIVE StringifyElems(_, _)
RECURSIVE StringifyMembers(_, _, _)

\* An array element with no JSON text is written as null.
StringifyElems(xs, i) ==
    IF i > Len(xs) THEN <<>>
    ELSE (IF i > 1 THEN <<",">> ELSE <<>>)
         \o (IF Unserializable(xs[i]) THEN TextNull ELSE JSONStringify(xs[i]))
         \o StringifyElems(xs, i + 1)

\* An object member with no JSON text is left out.
StringifyMembers(ms, i, first) ==
    IF i > Len(ms) THEN <<>>
    ELSE IF Unserializable(ms[i].v) THEN StringifyMembers(ms, i + 1, first)
    ELSE (IF first THEN <<>> ELSE <<",">>)
         \o Quote(ms[i].k) \o <<":">> \o JSONStringify(ms[i].v)
         \o StringifyMembers(ms, i + 1, FALSE)

\* A File has no enumerable own property ("{}"); NaN is written as null.
JSONStringify(x) ==
    CASE x.t = "null" -> TextNull
      [] x.t = "nan" -> TextNull
      [] x.t = "bool" -> (IF x.v THEN TextTrue ELSE TextFalse)
      [] x.t = "num" -> Digits(x.v)
      [] x.t = "str" -> Quote(x.v)
      [] x.t = "arr" -> <<"[">> \o StringifyElems(x.v, 1) \o <<"]">>
      [] x.t = "obj" -> <<"{">> \o StringifyMembers(x.v, 1, TRUE) \o <<"}">>
      [] x.t = "file" -> <<"{", "}">>

(***************************************************************************)
(* JSON.parse: a recursive-descent reader of the text. A result is         *)
(* [ok, v, i]: whether a value was read, the value, and the index after    *)
(* it. The grammar read is JSON's over the characters the model uses       *)
(* (no sign, fraction or exponent; the escapes \", \\ and \n).             *)
(***************************************************************************)
ParseFail == [ok |-> FALSE, v |-> JNull, i |-> 0]
ParseOk(v, i) == [ok |-> TRUE, v |-> v, i |-> i]

RECURSIVE SkipWs(_, _)
SkipWs(s, i) ==
    IF i <= Len(s) /\ s[i] \in {" ", "\n"} THEN SkipWs(s, i + 1) ELSE i

HasAt(s, i, lit) ==
    /\ i + Len(lit) - 1 <= Len(s)
    /\ SubSeq(s, i, i + Len(lit) - 1) = lit

DigitVal(c) == CHOOSE d \in 0..9 : DigitChars[d + 1] = c

RECURSIVE ParseStringFrom(_, _, _)
ParseStringFrom(s, i, acc) ==
    IF i > Len(s) THEN ParseFail
    ELSE IF s[i] = "\"" THEN ParseOk(JStr(acc), i + 1)
    ELSE IF s[i] = "\\" THEN
        IF i + 1 > Len(s) THEN ParseFail
        ELSE IF s[i + 1] = "\"" THEN ParseStringFrom(s, i + 2, Append(acc, "\""))
        ELSE IF s[i + 1] = "\\" THEN ParseStringFrom(s, i + 2, Append(acc, "\\"))
        ELSE IF s[i + 1] = "n" THEN ParseStringFrom(s, i + 2, Append(acc, "\n"))
        ELSE ParseFail
    ELSE IF s[i] = "\n" THEN ParseFail
    ELSE ParseStringFrom(s, i + 1, Append(acc, s[i]))

RECURSIVE ParseNumberFrom(_, _, _)
ParseNumberFrom(s, i, acc) ==
    IF i <= Len(s) /\ s[i] \in DigitSet
    THEN ParseNumberFrom(s, i + 1, acc * 10 + DigitVal(s[i]))
    ELSE ParseOk(JNum(acc), i)

\* A repeated member name keeps its first place and takes the last value.
RECURSIVE SetMember(_, _, _, _)
SetMember(ms, k, v, i) ==
    IF i > Len(ms) THEN Append(ms, Member(k, v))
    ELSE IF ms[i].k = k THEN [ms EXCEPT ![i] = Member(k, v)]
    ELSE SetMember(ms, k, v, i + 1)

RECURSIVE ParseValue(_, _)
RECURSIVE ParseElems(_, _, _)
RECURSIVE ParseMembers(_, _, _)

ParseElems(s, i, acc) ==
    LET r == ParseValue(s, i)
        k == SkipWs(s, r.i)
    IN  IF ~r.ok \/ k > Len(s) THEN ParseFail
        ELSE IF s[k] = "," THEN ParseElems(s, k + 1, Append(acc, r.v))
        ELSE IF s[k] = "]" THEN ParseOk(JArr(Append(acc, r.v)), k + 1)
        ELSE ParseFail

ParseMembers(s, i, acc) ==
    LET j == SkipWs(s, i)
        ks == IF j <= Len(s) /\ s[j] = "\"" THEN ParseStringFrom(s, j + 1, <<>>)
              ELSE ParseFail
        c == SkipWs(s, ks.i)
        r == IF ks.ok /\ c <= Len(s) /\ s[c] = ":" THEN ParseValue(s, c + 1)
             ELSE ParseFail
        k == SkipWs(s, r.i)
    IN  IF ~r.ok \/ k > Len(s) THEN ParseFail
        ELSE IF s[k] = "," THEN ParseMembers(s, k + 1, SetMember(acc, ks.v.v, r.v, 1))
        ELSE IF s[k] = "}" THEN ParseOk(JObj(SetMember(acc, ks.v.v, r.v, 1)), k + 1)
        ELSE ParseFail

ParseValue(s, i) ==
    LET j == SkipWs(s, i)
    IN  IF j > Len(s) THEN ParseFail
        ELSE IF s[j] = "\"" THEN ParseStringFrom(s, j + 1, <<>>)
        ELSE IF s[j] = "[" THEN
            (LET e == SkipWs(s, j + 1)
             IN  IF e <= Len(s) /\ s[e] = "]" THEN ParseOk(JArr(<<>>), e + 1)
                 ELSE ParseElems(s, j + 1, <<>>))
        ELSE IF s[j] = "{" THEN
            (LET e == SkipWs(s, j + 1)
             IN  IF e <= Len(s) /\ s[e] = "}" THEN ParseOk(JObj(<<>>), e + 1)
                 ELSE ParseMembers(s, j + 1, <<>>))
        ELSE IF s[j] = "0" THEN ParseOk(JNum(0), j + 1)
        ELSE IF s[j] \in DigitSet THEN ParseNumberFrom(s, j, 0)
        ELSE IF HasAt(s, j, TextTrue) THEN ParseOk(JBool(TRUE), j + 4)
        ELSE IF HasAt(s, j, TextFalse) THEN ParseOk(JBool(FALSE), j + 5)
        ELSE IF HasAt(s, j, TextNull) THEN ParseOk(JNull, j + 4)
        ELSE ParseFail

\* JSON.parse(text): the whole text must be one value; ok = FALSE is the
\* SyntaxError.
JSONParse(s) ==
    LET r == ParseValue(s, 1)
    IN  IF r.ok /\ SkipWs(s, r.i) > Len(s) THEN r ELSE ParseFail

(***************************************************************************)
(* Native key-value storage (window.localStorage / window.sessionStorage): *)
(* an ordered list of [k, v] entries of text. The environment env is       *)
(* [mode, quota]: in mode "raise" every call raises; a write that would    *)
(* take the stored characters over quota raises QuotaExceededError.        *)
(***************************************************************************)
RECURSIVE IndexOfKey(_, _, _)
IndexOfKey(items, key, i) ==
    IF i > Len(items) THEN 0
    ELSE IF items[i].k = key THEN i
    ELSE IndexOfKey(items, key, i + 1)

HasKey(items, key) == IndexOfKey(items, key, 1) # 0

RemoveAt(items, i) ==
    [j \in 1..(Len(items) - 1) |-> IF j < i THEN items[j] ELSE items[j + 1]]

RemoveKey(items, key) ==
    LET i == IndexOfKey(items, key, 1)
    IN  IF i = 0 THEN items ELSE RemoveAt(items, i)

PutEntry(items, key, text) ==
    LET i == IndexOfKey(items, key, 1)
    IN  IF i = 0 THEN Append(items, Member(key, text))
        ELSE [items EXCEPT ![i] = Member(key, text)]

RECURSIVE StoredChars(_, _)
StoredChars(items, i) ==
    IF i > Len(items) THEN 0
    ELSE Len(items[i].k) + Len(items[i].v) + StoredChars(items, i + 1)

KeysOf(items) == [i \in 1..Len(items) |-> items[i].k]

\* The order in which storage.key(i) enumerates the keys is the browser's
\* choice: here the order of the characters, a shorter key first.
CharOrder ==
    <<"_", "1", "a", "b", "c", "d", "e", "f", "g", "h", "i", "k", "l", "m",
      "n", "o", "p", "r", "s", "t", "u", "v", "x">>
CharRank(c) == CHOOSE i \in 1..Len(CharOrder) : CharOrder[i] = c

RECURSIVE KeyBefore(_, _, _)
KeyBefore(a, b, i) ==
    IF i > Len(a) THEN i <= Len(b)
    ELSE IF i > Len(b) THEN FALSE
    ELSE IF a[i] = b[i] THEN KeyBefore(a, b, i + 1)
    ELSE CharRank(a[i]) < CharRank(b[i])

NativePut(items, key, text) ==
    LET i == IndexOfKey(items, key, 1)
        n == Cardinality({j \in 1..Len(items) : KeyBefore(items[j].k, key, 1)})
    IN  IF i # 0 THEN [items EXCEPT ![i] = Member(key, text)]
        ELSE [j \in 1..(Len(items) + 1) |->
                IF j <= n THEN items[j]
                ELSE IF j = n + 1 THEN Member(key, text)
                ELSE items[j - 1]]

\* storage.setItem(key, text): [err, items].
NativeSetItem(e, items, key, text) ==
    LET new == NativePut(items, key, text)
    IN  IF e.mode = "raise" THEN [err |-> "SecurityError", items |-> items]
        ELSE IF StoredChars(new, 1) > e.quota
        THEN [err |-> "QuotaExceededError", items |-> items]
        ELSE [err |-> "none", items |-> new]

\* storage.getItem(key): the text as a string value, or null.
NativeGetItem(items, key) ==
    LET i == IndexOfKey(items, key, 1)
    IN  IF i = 0 THEN JNull ELSE JStr(items[i].v)

(***************************************************************************)
(* The in-memory fallback: a plain object ({}), so that a property read or *)
(* an `in` test also sees what Object.prototype holds.                     *)
(***************************************************************************)
KeyConstructor == <<"c", "o", "n", "s", "t", "r", "u", "c", "t", "o", "r">>
ObjectPrototypeKeys == {KeyConstructor}

\* memory[key]
MemoryRead(own, key) ==
    LET i == IndexOfKey(own, key, 1)
    IN  IF i # 0 THEN JStr(own[i].v)
        ELSE IF key \in ObjectPrototypeKeys THEN JFunction
        ELSE Undef

\* key in memory
MemoryIn(own, key) == HasKey(own, key) \/ key \in ObjectPrototypeKeys

(***************************************************************************)
(* js/local-storage.js                                                     *)
(***************************************************************************)
TestKey == <<"_", "_", "s", "t", "o", "r", "a", "g", "e", "_", "t", "e", "s", "t", "_", "_">>
TestText == <<"t", "e", "s", "t">>

\* setItem of the test key, then removeItem: the store is left as it was.
testStorageAvailability(e, items) ==
    NativeSetItem(e, items, TestKey, TestText).err = "none"

safeParse(x) ==
    IF x.t \in {"null", "undef"} THEN JNull
    ELSE IF x.t = "str" THEN
        (LET r == JSONParse(x.v) IN IF r.ok THEN r.v ELSE x)
    ELSE x

\* [def, text]: def = FALSE stands for the result undefined.
safeStringify(x) ==
    IF x.t = "undef" THEN [def |-> FALSE, text |-> <<>>]
    ELSE IF x.t = "null" THEN [def |-> TRUE, text |-> TextNull]
    ELSE IF x.t = "str" THEN [def |-> TRUE, text |-> x.v]
    ELSE IF Unserializable(x) THEN [def |-> FALSE, text |-> <<>>]
    ELSE [def |-> TRUE, text |-> JSONStringify(x)]

\* The store s is [avail, native, memory], each a function of isSession.
getStorageUsable(s, isSession) == s.avail[isSession]

StartsWith(key, prefix) ==
    Len(key) >= Len(prefix) /\ SubSeq(key, 1, Len(prefix)) = prefix

Includes(key, part) ==
    \E i \in 1..(Len(key) - Len(part) + 1) :
        SubSeq(key, i, i + Len(part) - 1) = part

PrefixDraft == <<"r", "a", "r", "e", "_", "f", "o", "r", "m", "_", "d", "r", "a", "f", "t", "_">>
PrefixAutosave == <<"r", "a", "r", "e", "_", "f", "o", "r", "m", "_", "a", "u", "t", "o", "s", "a", "v", "e", "_">>
PrefixTemp == <<"r", "a", "r", "e", "_", "t", "e", "m", "p", "_">>
PrefixOld == <<"r", "a", "r", "e", "_", "o", "l", "d", "_">>
keysToCheck == {PrefixDraft, PrefixAutosave, PrefixTemp, PrefixOld}
TimestampMark == <<"_", "t", "i", "m", "e", "s", "t", "a", "m", "p", "_">>

\* The first loop of _handleQuotaExceeded, from index i down: remove an entry
\* with a low-value prefix, retry the write, stop at the first success.
RECURSIVE EvictLoop(_, _, _, _, _)
EvictLoop(e, items, i, newKey, newValue) ==
    IF i < 1 THEN [done |-> FALSE, items |-> items]
    ELSE IF \E p \in keysToCheck : StartsWith(items[i].k, p) THEN
        (LET rem == RemoveAt(items, i)
             r == NativeSetItem(e, rem, newKey, newValue)
         IN  IF r.err = "none" THEN [done |-> TRUE, items |-> r.items]
             ELSE EvictLoop(e, rem, i - 1, newKey, newValue))
    ELSE EvictLoop(e, items, i - 1, newKey, newValue)

RECURSIVE RemoveKeys(_, _, _)
RemoveKeys(items, ks, n) ==
    IF n = 0 THEN items ELSE RemoveKeys(RemoveKey(items, ks[n]), ks, n - 1)

\* [threw, items]
handleQuotaExceeded(e, items, newKey, newValue) ==
    LET first == EvictLoop(e, items, Len(items), newKey, newValue)
        keys == KeysOf(first.items)
        timestampedKeys == SelectSeq(keys, LAMBDA k : Includes(k, TimestampMark))
        half == (Len(timestampedKeys) + 1) \div 2
        cleared == RemoveKeys(first.items, timestampedKeys, half)
        last == NativeSetItem(e, cleared, newKey, newValue)
    IN  IF first.done THEN [threw |-> FALSE, items |-> first.items]
        ELSE IF Len(timestampedKeys) > 0 THEN
            [threw |-> last.err # "none", items |-> last.items]
        ELSE [threw |-> TRUE, items |-> first.items]

ValidKey(key) == key # <<>>

\* Storage.set(key, value, isSession): [ret, s, path], path naming the
\* branch that ended the call.
StorageSet(s, e, key, value, isSession) ==
    LET stringValue == safeStringify(value)
        items == s.native[isSession]
        direct == NativeSetItem(e, items, key, stringValue.text)
        retry == handleQuotaExceeded(e, items, key, stringValue.text)
        toMemory(its) ==
            [s EXCEPT !.native[isSession] = its,
                      !.memory[isSession] = PutEntry(@, key, stringValue.text)]
    IN  IF ~ValidKey(key) THEN [ret |-> FALSE, s |-> s, path |-> "rejected"]
        ELSE IF ~stringValue.def THEN [ret |-> FALSE, s |-> s, path |-> "rejected"]
        ELSE IF ~getStorageUsable(s, isSession)
        THEN [ret |-> TRUE, s |-> toMemory(items), path |-> "memory"]
        ELSE IF direct.err = "none"
        THEN [ret |-> TRUE, s |-> [s EXCEPT !.native[isSession] = direct.items],
              path |-> "native"]
        ELSE IF direct.err = "QuotaExceededError" THEN
            (IF ~retry.threw
             THEN [ret |-> TRUE, s |-> [s EXCEPT !.native[isSession] = retry.items],
                   path |-> "evicted"]
             ELSE [ret |-> TRUE, s |-> toMemory(retry.items), path |-> "quotaMemory"])
        ELSE [ret |-> TRUE, s |-> toMemory(items), path |-> "memory"]

\* Storage.get(key, isSession)
StorageGet(s, e, key, isSession) ==
    IF ~ValidKey(key) THEN JNull
    ELSE IF getStorageUsable(s, isSession) /\ e.mode # "raise"
    THEN safeParse(NativeGetItem(s.native[isSession], key))
    ELSE LET value == MemoryRead(s.memory[isSession], key)
         IN  IF value.t # "undef" THEN safeParse(value) ELSE JNull

\* Storage.remove(key, isSession): [ret, s]
StorageRemove(s, e, key, isSession) ==
    IF ~ValidKey(key) THEN [ret |-> FALSE, s |-> s]
    ELSE [ret |-> TRUE,
          s |-> [s EXCEPT
                 !.native[isSession] =
                     IF getStorageUsable(s, isSession) /\ e.mode # "raise"
                     THEN RemoveKey(@, key) ELSE @,
                 !.memory[isSession] = RemoveKey(@, key)]]

\* Storage.clear(isSession): [ret, s]
StorageClear(s, e, isSession) ==
    [ret |-> TRUE,
     s |-> [s EXCEPT
            !.native[isSession] =
                IF getStorageUsable(s, isSession) /\ e.mode # "raise"
                THEN <<>> ELSE @,
            !.memory[isSession] = <<>>]]

\* Storage.has(key, isSession)
StorageHas(s, e, key, isSession) ==
    IF ~ValidKey(key) THEN FALSE
    ELSE IF getStorageUsable(s, isSession) /\ e.mode # "raise"
    THEN NativeGetItem(s.native[isSession], key).t # "null"
    ELSE MemoryIn(s.memory[isSession], key)

\* Storage.keys(isSession)
StorageKeys(s, e, isSession) ==
    IF getStorageUsable(s, isSession) /\ e.mode # "raise"
    THEN KeysOf(s.native[isSession])
    ELSE KeysOf(s.memory[isSession])

\* Storage.size(isSession)
RECURSIVE SizeFrom(_, _, _, _, _)
SizeFrom(s, e, keys, i, isSession) ==
    IF i > Len(keys) THEN 0
    ELSE LET stringValue == safeStringify(StorageGet(s, e, keys[i], isSession))
         IN  (IF stringValue.def /\ stringValue.text # <<>>
              THEN Len(keys[i]) * 2 + Len(stringValue.text) * 2 ELSE 0)
             + SizeFrom(s, e, keys, i + 1, isSession)

StorageSize(s, e, isSession) ==
    SizeFrom(s, e, StorageKeys(s, e, isSession), 1, isSession)

\* initLocalStorage(): the two availability flags are probed again.
initLocalStorage(s, e) ==
    [s EXCEPT !.avail = [b \in BOOLEAN |-> testStorageAvailability(e, s.native[b])]]

(***************************************************************************)
(* js/accessibility.js, the form validation module: the rules of a field.  *)
(***************************************************************************)
RECURSIVE TrimLeft(_)
TrimLeft(s) == IF s # <<>> /\ Head(s) = " " THEN TrimLeft(Tail(s)) ELSE s

RECURSIVE TrimRight(_)
TrimRight(s) ==
    IF s # <<>> /\ s[Len(s)] = " " THEN TrimRight(SubSeq(s, 1, Len(s) - 1)) ELSE s

Trim(s) == TrimRight(TrimLeft(s))

\* validators.required on the value of a text field
required(value) == Trim(value) # <<>>

\* validateField on a text field whose only rule is `required`
validateField(value) == required(value)

(***************************************************************************)
(* The rules of any field.  A field is the record of what the module reads *)
(* of an element:                                                          *)
(*   id, name    strings, "" when the attribute is missing                 *)
(*   type        "text", "email", "tel" or "checkbox"                      *)
(*   required    whether it has the attribute `required`                   *)
(*   minlength, maxlength, pattern                                         *)
(*               the attribute's text, <<>> when it is missing             *)
(*   value       the text typed into it                                    *)
(*   checked     how many inputs of its name are checked                   *)
(* A rule is [type, value, pattern, validator]: value is the number of a   *)
(* length rule, pattern the text of a pattern rule (both are `value` in    *)
(* the code), validator the name of a custom rule.                         *)
(***************************************************************************)
minStoryLength == 200

Rule(type, value, pattern, validator) ==
    [type |-> type, value |-> value, pattern |-> pattern, validator |-> validator]

\* parseInt on the text of a length attribute made of digits
parseInt(text) == ParseNumberFrom(text, 1, 0).v.v

extractValidationRules(field) ==
       (IF field.required THEN <<Rule("required", 0, <<>>, "")>> ELSE <<>>)
    \o (IF field.type = "email" THEN <<Rule("email", 0, <<>>, "")>> ELSE <<>>)
    \o (IF field.type = "tel" THEN <<Rule("phone", 0, <<>>, "")>> ELSE <<>>)
    \o (IF field.minlength # <<>>
        THEN <<Rule("minLength", parseInt(field.minlength), <<>>, "")>> ELSE <<>>)
    \o (IF field.maxlength # <<>>
        THEN <<Rule("maxLength", parseInt(field.maxlength), <<>>, "")>> ELSE <<>>)
    \o (IF field.pattern # <<>> THEN <<Rule("pattern", 0, field.pattern, "")>> ELSE <<>>)
    \o (IF field.name = "story" THEN <<Rule("custom", 0, <<>>, "storyMinimum")>> ELSE <<>>)
    \o (IF field.name = "qualities" THEN <<Rule("custom", 0, <<>>, "checkboxGroup")>> ELSE <<>>)
    \o (IF field.name = "department" THEN <<Rule("custom", 0, <<>>, "department")>> ELSE <<>>)
    \o (IF field.name = "relationship"
        THEN <<Rule("custom", 0, <<>>, "relationship")>> ELSE <<>>)

hasRequiredRule(rules) == \E i \in 1..Len(rules) : rules[i].type = "required"

\* getFieldValue: the checked values of a checkbox group (each box's value is
\* "on"), the text of any other field
getFieldValue(field) ==
    IF field.type = "checkbox" THEN [i \in 1..field.checked |-> <<"o", "n">>]
    ELSE field.value

\* validators.required on a field: an array passes when it has an element
requiredRule(field) ==
    IF field.type = "checkbox" THEN Len(getFieldValue(field)) > 0
    ELSE required(field.value)

\* /^[^\s@]+@[^\s@]+\.[^\s@]+$/ on the trimmed value
emailRegex(s) ==
    \E i, j \in 1..Len(s) :
        /\ s[i] = "@" /\ s[j] = "." /\ 1 < i /\ i + 1 < j /\ j < Len(s)
        /\ \A k \in 1..Len(s) : s[k] # " " /\ (s[k] = "@" => k = i)

emailRule(value) == value = <<>> \/ emailRegex(Trim(value))

\* value.replace(/\D/g, '').length
RECURSIVE CountDigits(_)
CountDigits(s) ==
    IF s = <<>> THEN 0
    ELSE (IF Head(s) \in DigitSet THEN 1 ELSE 0) + CountDigits(Tail(s))

\* /^\+?[\d\s\-()]+$/
phoneRegex(s) ==
    /\ s # <<>> /\ s # <<"+">>
    /\ \A k \in 1..Len(s) :
           s[k] \in DigitSet \cup {" ", "-", "(", ")"} \/ (k = 1 /\ s[k] = "+")

phoneRule(value) ==
    value = <<>> \/ (phoneRegex(value) /\ CountDigits(value) >= 10
                                       /\ CountDigits(value) <= 15)

minLength(value, length) == value = <<>> \/ Len(Trim(value)) >= length

maxLength(value, length) == value = <<>> \/ Len(Trim(value)) <= length

\* The patterns of the pages: digits only, and one that is no expression.
PatternDigits == <<"^", "[", "0", "-", "9", "]", "+", "$">>
PatternBroken == <<"(">>

\* new RegExp(pattern).test(value); an invalid pattern raises and fails
patternRule(value, pattern) ==
    value = <<>> \/ (/\ pattern = PatternDigits
                     /\ \A k \in 1..Len(value) : value[k] \in DigitSet)

storyMinimum(value) == value # <<>> /\ Len(Trim(value)) >= minStoryLength

checkboxGroup(field) == field.checked > 0

UpperCase == <<"A", "B", "C", "D", "E", "F", "G", "H", "I", "J", "K", "L", "M",
               "N", "O", "P", "Q", "R", "S", "T", "U", "V", "W", "X", "Y", "Z">>
LowerCase == <<"a", "b", "c", "d", "e", "f", "g", "h", "i", "j", "k", "l", "m",
               "n", "o", "p", "q", "r", "s", "t", "u", "v", "w", "x", "y", "z">>

toLowerCase(s) ==
    [k \in 1..Len(s) |->
        IF \E n \in 1..26 : UpperCase[n] = s[k]
        THEN LowerCase[CHOOSE n \in 1..26 : UpperCase[n] = s[k]]
        ELSE s[k]]

validDepartments ==
    { <<"e", "n", "g", "i", "n", "e", "e", "r", "i", "n", "g">>,
      <<"s", "a", "l", "e", "s">>,
      <<"m", "a", "r", "k", "e", "t", "i", "n", "g">>,
      <<"h", "r">>,
      <<"f", "i", "n", "a", "n", "c", "e">>,
      <<"o", "p", "e", "r", "a", "t", "i", "o", "n", "s">>,
      <<"c", "u", "s", "t", "o", "m", "e", "r", "-", "s", "e", "r", "v", "i", "c", "e">>,
      <<"p", "r", "o", "d", "u", "c", "t">>,
      <<"d", "e", "s", "i", "g", "n">>,
      <<"o", "t", "h", "e", "r">> }

department(value) == value # <<>> /\ toLowerCase(value) \in validDepartments

\* value.trim().split(/\s+/).length
WordCount(s) == 1 + Cardinality({k \in 1..(Len(s) - 1) : s[k] = " " /\ s[k + 1] # " "})

\* the length of the value as it was typed
relationshipUntrimmed(value) ==
    value # <<>> /\ WordCount(Trim(value)) >= 2 /\ Len(value) >= 10

relationship(value) ==
    value # <<>> /\ WordCount(Trim(value)) >= 2 /\ Len(Trim(value)) >= 10

\* `passed` of one rule in validateField
RulePassed(rule, field) ==
    CASE rule.type = "required" -> requiredRule(field)
      [] rule.type = "email" -> emailRule(field.value)
      [] rule.type = "phone" -> phoneRule(field.value)
      [] rule.type = "minLength" -> minLength(field.value, rule.value)
      [] rule.type = "maxLength" -> maxLength(field.value, rule.value)
      [] rule.type = "pattern" -> patternRule(field.value, rule.pattern)
      [] rule.validator = "storyMinimum" -> storyMinimum(field.value)
      [] rule.validator = "checkboxGroup" -> checkboxGroup(field)
      [] rule.validator = "department" -> department(field.value)
      [] rule.validator = "relationship" -> relationship(field.value)

\* The message pushed for a failed rule: the text of CONFIG.validationMessages
\* with the rule's number in the place of {min} or {max}.  storyMinimum and
\* checkboxGroup are no keys of validationMessages.
RuleMessage(rule) ==
    CASE rule.type = "required" -> [text |-> "This field is required", n |-> 0]
      [] rule.type = "email" -> [text |-> "Please enter a valid email address", n |-> 0]
      [] rule.type = "phone" -> [text |-> "Please enter a valid phone number", n |-> 0]
      [] rule.type = "minLength" ->
             [text |-> "Must be at least {min} characters", n |-> rule.value]
      [] rule.type = "maxLength" ->
             [text |-> "Must be no more than {max} characters", n |-> rule.value]
      [] rule.type = "pattern" -> [text |-> "Please match the required format", n |-> 0]
      [] rule.validator = "department" ->
             [text |-> "Please select a valid department", n |-> 0]
      [] rule.validator = "relationship" ->
             [text |-> "Please describe your relationship to the nominee", n |-> 0]
      [] OTHER -> [text |-> "Invalid value", n |-> 0]

\* The forEach of validateField over the rules from rule i on
RECURSIVE RunRules(_, _, _, _)
RunRules(rules, field, i, result) ==
    IF i > Len(rules) THEN result
    ELSE IF RulePassed(rules[i], field) THEN RunRules(rules, field, i + 1, result)
    ELSE RunRules(rules, field, i + 1,
                  [isValid |-> FALSE,
                   errors |-> Append(result.errors, RuleMessage(rules[i]))])

\* initField: no state is kept of a field without id and name
Registered(field) == field.name # "" \/ field.id # ""

\* validateField as it would be if an optional field left empty were let
\* through without its rules
validateFilledOrRequired(rules, field) ==
    IF ~hasRequiredRule(rules) /\ field.value = <<>>
    THEN [isValid |-> TRUE, errors |-> <<>>]
    ELSE RunRules(rules, field, 1, [isValid |-> TRUE, errors |-> <<>>])

\* validateField on any field: what it returns and the errors it hands to
\* updateFieldUI.  A field without state is valid.
validateFieldRules(rules, field) == RunRules(rules, field, 1, [isValid |-> TRUE, errors |-> <<>>])

fieldRules(field) == IF Registered(field) THEN extractValidationRules(field) ELSE <<>>

(***************************************************************************)
(* js/form-handler.js: the functions of the form controller, each from a   *)
(* world w = [state, page, tasks, store, env, clock] to the world it       *)
(* leaves.                                                                 *)
(*   state: the controller's `state` object                                *)
(*   page:  what the document shows (the step with class `active`, the     *)
(*          value of each step's field, the error container, the submit    *)
(*          button, the scheduled redirect, the debounce timer of the      *)
(*          input listener)                                                *)
(*   tasks: continuations waiting after an await (mq, in order), whether   *)
(*          the task that queued them is still running (open), and the     *)
(*          submissions waiting on fetch or on simulateSubmission          *)
(*   clock: the instant Date.now() and new Date() tell                     *)
(***************************************************************************)
NumSteps == 3
maxDrafts == 5

autoSaveKey ==
    <<"r", "a", "r", "e", "_", "f", "o", "r", "m", "_", "a", "u", "t", "o", "s", "a", "v", "e">>
AutoSaveCurrent == autoSaveKey \o <<"_", "c", "u", "r", "r", "e", "n", "t">>
draftsKey ==
    <<"r", "a", "r", "e", "_", "f", "o", "r", "m", "_", "d", "r", "a", "f", "t", "s">>
SubmissionRefKey ==
    <<"r", "a", "r", "e", "_", "s", "u", "b", "m", "i", "s", "s", "i", "o", "n", "_", "r", "e", "f">>

NameFormData == <<"f", "o", "r", "m", "D", "a", "t", "a">>
NameCurrentStep == <<"c", "u", "r", "r", "e", "n", "t", "S", "t", "e", "p">>
NameTimestamp == <<"t", "i", "m", "e", "s", "t", "a", "m", "p">>
NameDraftId == <<"d", "r", "a", "f", "t", "I", "d">>
NameId == <<"i", "d">>
NameName == <<"n", "a", "m", "e">>
NameCreatedAt == <<"c", "r", "e", "a", "t", "e", "d", "A", "t">>

\* The page has one required text field in each step, named f1, f2, ...
FieldName(i) == <<"f", DigitChars[i + 1]>>

\* new Date().toISOString() and generateDraftId() at instant n
toISOString(n) == <<"t">> \o Digits(n)
generateDraftId(n) == <<"d", "r", "a", "f", "t", "_">> \o Digits(n)

NoMessage == ""
MsgIncomplete == "Please complete all required fields"
MsgSubmissionFailed == "Submission failed"
MsgSimulated == "Simulated error for testing"
MsgHttp == "HTTP error! status: 500"
MsgAborted == "The user aborted a request."
MsgStorage == "The operation is insecure."
MsgDraftFailed == "Failed to save draft"
MsgDeleteFailed == "Failed to delete draft"

\* state.currentStep after showStep was given StepText, a text that is no
\* number: a comparison of the text with a number is false whichever way it
\* is put, so that showStep assigns it, and no step is shown (page.active 0).
TextStep == 0 - 1
StepText == <<"x">>
\* state.currentStep as a value
stepValue(n) == IF n = TextStep THEN JStr(StepText) ELSE JNum(n)
\* elements.steps[state.currentStep - 1] is an element
StepElement(w) == w.state.currentStep \in 1..NumSteps

showStepText(w) == [w EXCEPT !.state.currentStep = TextStep, !.page.active = 0]

showStep(w, stepNumber) ==
    IF stepNumber < 1 \/ stepNumber > NumSteps THEN w
    ELSE [w EXCEPT !.state.currentStep = stepNumber, !.page.active = stepNumber]

scheduleAutoSave(w) == [w EXCEPT !.state.autoSaveTimer = TRUE]

saveStepData(w) ==
    LET i == w.state.currentStep
    IN  IF ~StepElement(w) THEN w
        ELSE scheduleAutoSave(
                [w EXCEPT !.state.formData =
                    SetMember(@, FieldName(i), JStr(w.page.fields[i]), 1)])

handleAutoSave(w) == scheduleAutoSave(saveStepData(w))

validateCurrentStep(w) ==
    IF ~StepElement(w) THEN TRUE
    ELSE validateField(w.page.fields[w.state.currentStep])

validateAllSteps(w) == \A i \in 1..NumSteps : validateField(w.page.fields[i])

showFormError(w, message) == [w EXCEPT !.page.error = message]

clearErrors(w) == [w EXCEPT !.page.error = NoMessage]

showLoadingState(w, show) ==
    [w EXCEPT !.page.submitBtn =
        [disabled |-> show, text |-> IF show THEN "Submitting..." ELSE "Submit"]]

handleSubmitError(w, error) ==
    [showFormError(w, error) EXCEPT !.page.submitBtn.text = "Retry Submission"]

clearAutoSave(w) ==
    [w EXCEPT !.store = StorageRemove(w.store, w.env, AutoSaveCurrent, FALSE).s,
              !.state.currentDraftId = JNull]

clearFormData(w) ==
    [w EXCEPT !.state.formData = <<>>,
              !.state.currentStep = 1,
              !.state.currentDraftId = JNull]

\* [threw, w]: sessionStorage.setItem is called on the browser's object,
\* outside any try of this function.
handleSubmitSuccess(w, referenceNumber) ==
    LET cleared == clearFormData(clearAutoSave(w))
        put == NativeSetItem(w.env, cleared.store.native[TRUE],
                             SubmissionRefKey, referenceNumber)
    IN  IF put.err # "none" THEN [threw |-> TRUE, w |-> cleared]
        ELSE [threw |-> FALSE,
              w |-> [cleared EXCEPT !.store.native[TRUE] = put.items,
                                    !.page.redirect = TRUE]]

\* handleSubmit up to its first await: the continuation it leaves.
handleSubmitCall(w) ==
    IF w.state.isSubmitting THEN w
    ELSE [w EXCEPT !.tasks.mq =
            Append(@, [kind |-> "submit", valid |-> validateAllSteps(w), step |-> 0])]

\* handleSubmit from `await validateAllSteps()` to `await submitForm(...)`.
handleSubmitResume(w, c) ==
    IF ~c.valid THEN showFormError(w, MsgIncomplete)
    ELSE [clearErrors(showLoadingState([w EXCEPT !.state.isSubmitting = TRUE], TRUE))
            EXCEPT !.tasks.fetch = @ + 1]

\* handleSubmit from the answer of submitForm to its end. The answer is
\* [thrown, success, text]: an exception with its message, or a body with
\* its reference number or its error.
handleSubmitSettle(w, answer) ==
    LET done ==
            IF answer.thrown THEN handleSubmitError(w, answer.text)
            ELSE IF answer.success THEN
                (LET r == handleSubmitSuccess(w, answer.text)
                 IN  IF r.threw THEN handleSubmitError(r.w, MsgStorage) ELSE r.w)
            ELSE handleSubmitError(w, answer.text)
    IN  showLoadingState([done EXCEPT !.state.isSubmitting = FALSE], FALSE)

\* handleNext up to its await.
handleNextCall(w) ==
    [w EXCEPT !.tasks.mq =
        Append(@, [kind |-> "next", valid |-> validateCurrentStep(w),
                   step |-> w.state.currentStep])]

\* handleNext after `await validateCurrentStep()`.
handleNextResume(w, c) ==
    IF ~c.valid THEN w
    ELSE LET saved == saveStepData(w)
         IN  IF saved.state.currentStep # TextStep /\ saved.state.currentStep < NumSteps
             THEN showStep(saved, saved.state.currentStep + 1)
             ELSE handleSubmitCall(saved)

handlePrev(w) ==
    LET saved == saveStepData(w)
    IN  IF saved.state.currentStep # TextStep /\ saved.state.currentStep > 1
        THEN showStep(saved, saved.state.currentStep - 1) ELSE saved

goToStep(w, stepNumber) ==
    IF stepNumber >= 1 /\ stepNumber <= NumSteps
    THEN showStep(saveStepData(w), stepNumber) ELSE w

\* the click listener of step indicator j: updateStepIndicators gave it the
\* class `completed` when the step was last shown.
indicatorClick(w, j) == IF j < w.page.active THEN goToStep(w, j) ELSE w

performAutoSave(w) ==
    LET saveData ==
            JObj(<<Member(NameFormData, JObj(w.state.formData)),
                   Member(NameCurrentStep, stepValue(w.state.currentStep)),
                   Member(NameTimestamp, JStr(toISOString(w.clock))),
                   Member(NameDraftId,
                          IF Truthy(w.state.currentDraftId) THEN w.state.currentDraftId
                          ELSE JStr(generateDraftId(w.clock)))>>)
    IN  [w EXCEPT !.store =
            StorageSet(w.store, w.env, AutoSaveCurrent, saveData, FALSE).s]

\* Storage.get(draftsKey) || []
storedDrafts(w) ==
    LET got == StorageGet(w.store, w.env, draftsKey, FALSE)
    IN  IF Truthy(got) THEN got ELSE JArr(<<>>)

\* drafts.unshift(draft); if (drafts.length > CONFIG.maxDrafts) drafts.pop()
unshiftCapped(list, draft) ==
    IF Len(list) + 1 > maxDrafts THEN <<draft>> \o SubSeq(list, 1, Len(list) - 1)
    ELSE <<draft>> \o list

\* The try block of saveDraft, on the value Storage.get returned for the
\* list: a value without unshift raises, and the catch shows the error.
saveDraftInto(w, drafts, draft) ==
    IF drafts.t # "arr" THEN showFormError(w, MsgDraftFailed)
    ELSE [w EXCEPT !.store =
            StorageSet(w.store, w.env, draftsKey,
                       JArr(unshiftCapped(drafts.v, draft)), FALSE).s]

\* saveDraft with the name the prompt returned
saveDraft(w, draftName) ==
    saveDraftInto(w, storedDrafts(w),
        JObj(<<Member(NameId, JStr(generateDraftId(w.clock))),
               Member(NameName, JStr(draftName)),
               Member(NameFormData, JObj(w.state.formData)),
               Member(NameCurrentStep, stepValue(w.state.currentStep)),
               Member(NameCreatedAt, JStr(toISOString(w.clock)))>>))

\* The try block of deleteDraft, on the value Storage.get returned.
deleteDraftFrom(w, drafts, draftId) ==
    IF drafts.t # "arr" THEN showFormError(w, MsgDeleteFailed)
    ELSE [w EXCEPT !.store =
            StorageSet(w.store, w.env, draftsKey,
                       JArr(SelectSeq(drafts.v,
                                LAMBDA d : Prop(d, NameId) # JStr(draftId))),
                       FALSE).s]

\* deleteDraft(draftId) after the confirm dialog was answered
deleteDraft(w, draftId, confirmed) ==
    IF ~confirmed THEN w ELSE deleteDraftFrom(w, storedDrafts(w), draftId)

MsgLoadFailed == "Failed to load draft"

\* The step field whose name is `name`, 0 when the page has none.
FieldIndex(name) ==
    IF \E i \in 1..NumSteps : FieldName(i) = name
    THEN CHOOSE i \in 1..NumSteps : FieldName(i) = name
    ELSE 0

\* field.value = value: the text a text field shows for the value assigned.
fieldText(v) ==
    CASE v.t = "str" -> v.v
      [] v.t = "num" -> Digits(v.v)
      [] v.t = "null" -> <<>>
      [] v.t = "bool" -> IF v.v THEN TextTrue ELSE TextFalse

\* restoreFormData: the fields named in state.formData, from member i on, are
\* given their values; no other field is touched.
RECURSIVE restoreFrom(_, _, _)
restoreFrom(fields, ms, i) ==
    IF i > Len(ms) THEN fields
    ELSE IF FieldIndex(ms[i].k) = 0 THEN restoreFrom(fields, ms, i + 1)
    ELSE restoreFrom([fields EXCEPT ![FieldIndex(ms[i].k)] = fieldText(ms[i].v)],
                     ms, i + 1)

restoreFormData(w) ==
    [w EXCEPT !.page.fields = restoreFrom(@, w.state.formData, 1)]

\* drafts.find(d => d.id === draftId): the first such draft, or undefined.
RECURSIVE findDraft(_, _, _)
findDraft(list, draftId, i) ==
    IF i > Len(list) THEN Undef
    ELSE IF Prop(list[i], NameId) = JStr(draftId) THEN list[i]
    ELSE findDraft(list, draftId, i + 1)

\* showStep(step || 1) on a step read from storage.
showStoredStep(w, step) ==
    IF ~Truthy(step) THEN showStep(w, 1)
    ELSE CASE step.t = "num" -> showStep(w, step.v)
           [] step.t = "str" /\ step.v = StepText -> showStepText(w)

\* The `if (draft)` block of loadDraft, on a draft saveDraft stored.
loadDraftFound(w, draft) ==
    showStoredStep(
        restoreFormData([w EXCEPT !.state.formData = Prop(draft, NameFormData).v,
                                  !.state.currentDraftId = Prop(draft, NameId)]),
        Prop(draft, NameCurrentStep))

\* The try block of loadDraft, on the value Storage.get returned.
loadDraftFrom(w, drafts, draftId) ==
    IF drafts.t # "arr" THEN showFormError(w, MsgLoadFailed)
    ELSE IF findDraft(drafts.v, draftId, 1) = Undef THEN w
    ELSE loadDraftFound(w, findDraft(drafts.v, draftId, 1))

loadDraft(w, draftId) == loadDraftFrom(w, storedDrafts(w), draftId)

\* The `if (savedData && savedData.formData)` block of loadAutoSave.
loadAutoSaveFound(w, savedData) ==
    LET restored ==
            restoreFormData(
                [w EXCEPT !.state.formData = Prop(savedData, NameFormData).v,
                          !.state.currentDraftId = Prop(savedData, NameDraftId)])
    IN  IF Truthy(Prop(savedData, NameCurrentStep))
        THEN showStoredStep(restored, Prop(savedData, NameCurrentStep))
        ELSE restored

\* The try block of loadAutoSave, on the value Storage.get returned.
loadAutoSaveFrom(w, savedData) ==
    IF Truthy(savedData) /\ Truthy(Prop(savedData, NameFormData))
    THEN loadAutoSaveFound(w, savedData)
    ELSE w

loadAutoSave(w) ==
    loadAutoSaveFrom(w, StorageGet(w.store, w.env, AutoSaveCurrent, FALSE))

\* What elements.draftsList shows.
NothingListed == "nothing"
NoSavedDrafts == "No saved drafts"
DraftItems == "draft items"

\* The try block of loadDraftsList, on the value Storage.get returned and
\* what the list shows: a value without map raises, and the catch leaves
\* the list as it is.
loadDraftsListFrom(drafts, listed) ==
    IF drafts.t = "arr"
    THEN (IF Len(drafts.v) = 0 THEN NoSavedDrafts ELSE DraftItems)
    ELSE listed

loadDraftsList(w, listed) == loadDraftsListFrom(storedDrafts(w), listed)

(***************************************************************************)
(* js/accessibility.js, the form validation module on a page: its          *)
(* functions, from a world w to the world they leave.  w.validation holds  *)
(* the module's `state` and the marks it puts on the fields:               *)
(*   formId, isValid, value   of each field's state in state.fields        *)
(*   forms                    state.forms: [isValid, completion] by form   *)
(*   touched, errors          state.touched, state.errors (no entry: <<>>) *)
(*   completionPercentage     state.completionPercentage                   *)
(*   marking                  "valid" or "invalid" by the field's classes, *)
(*                            "none" without either                        *)
(*   shown                    the text of the field's error container      *)
(*   inputTimer               the fields whose debounced input waits       *)
(* The fields are those of w.page.fields, each a required text input; the  *)
(* first form holds the page's submit control, another form has none.      *)
(***************************************************************************)
debounceDelay == 300

NominationForm ==
    <<"n", "o", "m", "i", "n", "a", "t", "i", "o", "n", "F", "o", "r", "m">>
ContactForm == <<"c", "o", "n", "t", "a", "c", "t">>

NoError == [text |-> "", n |-> 0]

PageField(w, f) ==
    [id |-> "f", name |-> "f", type |-> "text", required |-> TRUE,
     minlength |-> <<>>, maxlength |-> <<>>, pattern |-> <<>>,
     value |-> w.page.fields[f], checked |-> 0]

\* What initForms leaves of the forms whose fields are given by formId.
InitialValidation(formId) ==
    [formId |-> formId,
     isValid |-> [f \in DOMAIN formId |-> FALSE],
     value |-> [f \in DOMAIN formId |-> <<>>],
     forms |-> [form \in {formId[f] : f \in DOMAIN formId} |->
                    [isValid |-> FALSE, completion |-> 0]],
     touched |-> {},
     errors |-> [f \in DOMAIN formId |-> <<>>],
     completionPercentage |-> 0,
     marking |-> [f \in DOMAIN formId |-> "none"],
     shown |-> [f \in DOMAIN formId |-> NoError],
     inputTimer |-> {},
     attended |-> {}]

FieldsOf(w, form) == {f \in DOMAIN w.validation.formId : w.validation.formId[f] = form}

\* updateFieldUI as it would be without the test of state.touched
updateFieldUIUntested(w, f, result) ==
    IF result.isValid
    THEN [w EXCEPT !.validation.marking[f] = "valid",
                   !.validation.shown[f] = NoError,
                   !.validation.errors[f] = <<>>]
    ELSE [w EXCEPT !.validation.marking[f] = "invalid",
                   !.validation.shown[f] =
                       IF Len(result.errors) > 0 THEN result.errors[1] ELSE @,
                   !.validation.errors[f] = result.errors]

updateFieldUI(w, f, result) ==
    IF f \notin w.validation.touched THEN w
    ELSE IF result.isValid
    THEN [w EXCEPT !.validation.marking[f] = "valid",
                   !.validation.shown[f] = NoError,
                   !.validation.errors[f] = <<>>]
    ELSE [w EXCEPT !.validation.marking[f] = "invalid",
                   !.validation.shown[f] =
                       IF Len(result.errors) > 0 THEN result.errors[1] ELSE @,
                   !.validation.errors[f] = result.errors]

\* Math.round((valid / required) * 100)
(***************************************************************************)
(* Numbers as the engine holds them (IEEE 754 binary64), for the division  *)
(* and the multiplication of updateFormCompletion.  A positive number is   *)
(* [m, e]: m its 53 significant bits, the first one 1, and e the exponent  *)
(* of the last, so that the number is m * 2^e.  m is held in three limbs,  *)
(* <<a, b, c>> for a * 2^36 + b * 2^18 + c, with a of 17 bits.  Every      *)
(* operation rounds to the nearest such number, to the even one on a tie.  *)
(***************************************************************************)
Mantissa == 53
LimbBits == 18
LimbSize == 2^LimbBits
TopSize == 2^(LimbBits - 1)

\* 2^k modulo r, for k <= 90
PowerOfTwoMod(k, r) ==
    IF k <= 30 THEN (2^k) % r
    ELSE IF k <= 60 THEN (((2^30) % r) * ((2^(k - 30)) % r)) % r
    ELSE (((((2^30) % r) * ((2^30) % r)) % r) * ((2^(k - 60)) % r)) % r

\* v / r for 0 < v < r, in binary: what is left of v after k bits of the
\* fraction, and bit k of the fraction
RemainderAfter(v, r, k) == (v * PowerOfTwoMod(k, r)) % r
FractionBit(v, r, k) == (2 * RemainderAfter(v, r, k - 1)) \div r

\* The zero bits before the first 1 of the fraction.
LeadingZeros(v, r) ==
    CHOOSE n \in 0..30 :
        /\ FractionBit(v, r, n + 1) = 1
        /\ \A k \in 1..n : FractionBit(v, r, k) = 0

\* m + 1
Successor(m) ==
    IF m[3] + 1 < LimbSize THEN <<m[1], m[2], m[3] + 1>>
    ELSE IF m[2] + 1 < LimbSize THEN <<m[1], m[2] + 1, 0>>
    ELSE <<m[1] + 1, 0, 0>>

\* m * 2^e, rounded up to the next number when up
Rounded(m, e, up) ==
    IF ~up THEN [m |-> m, e |-> e]
    ELSE IF Successor(m)[1] < TopSize THEN [m |-> Successor(m), e |-> e]
    ELSE [m |-> <<TopSize \div 2, 0, 0>>, e |-> e + 1]

\* The tie rule: the bit after the last is 1, and a bit after that one is 1
\* or the last bit is.
RoundsUp(last, half, rest) == half = 1 /\ (rest \/ (last % 2) = 1)

\* v / r, for 0 < v <= r
DivideFrom(v, r, lead) ==
    LET a == (RemainderAfter(v, r, lead) * TopSize) \div r
        b == (RemainderAfter(v, r, lead + LimbBits - 1) * LimbSize) \div r
        c == (RemainderAfter(v, r, lead + 2 * LimbBits - 1) * LimbSize) \div r
    IN  Rounded(<<a, b, c>>, 0 - (lead + Mantissa),
                RoundsUp(c, FractionBit(v, r, lead + Mantissa + 1),
                         RemainderAfter(v, r, lead + Mantissa + 1) # 0))

Divide(v, r) ==
    IF v = r THEN [m |-> <<TopSize \div 2, 0, 0>>, e |-> 1 - Mantissa]
    ELSE DivideFrom(v, r, LeadingZeros(v, r))

\* The product a * 2^36 + b * 2^18 + c, times 2^e, with d bits dropped.
Shortened(a, b, c, e, d) ==
    Rounded(<<a \div (2^d),
              ((a % (2^d)) * (2^(LimbBits - d))) + (b \div (2^d)),
              ((b % (2^d)) * (2^(LimbBits - d))) + (c \div (2^d))>>,
            e + d,
            RoundsUp(c \div (2^d), (c \div (2^(d - 1))) % 2, (c % (2^(d - 1))) # 0))

\* x * 100
TimesHundredFrom(a, b, c, e) ==
    Shortened(a, b, c, e, IF a >= 64 * TopSize THEN 7 ELSE 6)

TimesHundred(x) ==
    TimesHundredFrom(
        (100 * x.m[1]) + (((100 * x.m[2]) + ((100 * x.m[3]) \div LimbSize)) \div LimbSize),
        ((100 * x.m[2]) + ((100 * x.m[3]) \div LimbSize)) % LimbSize,
        (100 * x.m[3]) % LimbSize,
        x.e)

\* Math.round(x), for x < 2^16: the integer part of x, and one more when the
\* first bit after it is 1
MathRound(x) ==
    LET whole == Mantissa + x.e
    IN  IF whole < 0 THEN 0
        ELSE (x.m[1] \div (2^(LimbBits - 1 - whole)))
             + ((x.m[1] \div (2^(LimbBits - 2 - whole))) % 2)

\* The integer nearest to 100 * valid / all, the upper one on a tie.
PercentageExact(valid, all) == (200 * valid + all) \div (2 * all)

\* Math.round((validFields.length / requiredFields.length) * 100)
Percentage(valid, all) ==
    IF valid = 0 THEN 0 ELSE MathRound(TimesHundred(Divide(valid, all)))

updateFormCompletion(w, form) ==
    LET requiredFields == FieldsOf(w, form)
        validFields == {f \in requiredFields : w.validation.isValid[f]}
        completion == IF requiredFields # {}
                      THEN Percentage(Cardinality(validFields), Cardinality(requiredFields))
                      ELSE 100
        isValid == validFields = requiredFields
    IN  [w EXCEPT !.validation.forms[form] = [isValid |-> isValid, completion |-> completion],
                  !.validation.completionPercentage = completion,
                  !.page.submitBtn.disabled =
                      IF form = NominationForm THEN ~isValid ELSE @]

\* validateField(field) on field f of the page: the world it leaves; what it
\* returns is the field's isValid there.
validateFieldOn(w, f) ==
    LET result == validateFieldRules(fieldRules(PageField(w, f)), PageField(w, f))
    IN  updateFormCompletion(
            updateFieldUI([w EXCEPT !.validation.isValid[f] = result.isValid,
                                    !.validation.value[f] = w.page.fields[f]],
                          f, result),
            w.validation.formId[f])

storageKeyOf(form) ==
    <<"r", "a", "r", "e", "_", "f", "o", "r", "m", "_",
      "a", "u", "t", "o", "s", "a", "v", "e", "_">> \o form

\* collectFormData(formId), the fields from i on
RECURSIVE collectFormData(_, _, _)
collectFormData(w, form, i) ==
    IF i > Len(w.validation.formId) THEN <<>>
    ELSE (IF w.validation.formId[i] = form
          THEN <<Member(FieldName(i), JStr(w.validation.value[i]))>> ELSE <<>>)
         \o collectFormData(w, form, i + 1)

saveFieldToStorage(w, f) ==
    [w EXCEPT !.store =
        StorageSet(@, w.env, storageKeyOf(w.validation.formId[f]),
                   JObj(collectFormData(w, w.validation.formId[f], 1)), FALSE).s]

handleFieldBlur(w, f) ==
    saveFieldToStorage(validateFieldOn([w EXCEPT !.validation.touched = @ \cup {f}], f), f)

handleFieldInput(w, f) ==
    saveFieldToStorage(IF f \in w.validation.touched THEN validateFieldOn(w, f) ELSE w, f)

handleFieldChange(w, f) == saveFieldToStorage(validateFieldOn(w, f), f)

\* The fields of state.fields from i on that belong to `form` are validated
\* in turn, each marked as touched before when `touch` holds.
RECURSIVE validateFieldsFrom(_, _, _, _)
validateFieldsFrom(w, form, i, touch) ==
    IF i > Len(w.validation.formId) THEN w
    ELSE IF w.validation.formId[i] # form THEN validateFieldsFrom(w, form, i + 1, touch)
    ELSE validateFieldsFrom(
             validateFieldOn(
                 IF touch THEN [w EXCEPT !.validation.touched = @ \cup {i}] ELSE w, i),
             form, i + 1, touch)

\* The form's submit event
handleFormSubmit(w, form) ==
    LET after == validateFieldsFrom(w, form, 1, TRUE)
    IN  IF \E f \in FieldsOf(after, form) : ~after.validation.isValid[f] THEN after
        ELSE [after EXCEPT !.store =
                 StorageRemove(@, after.env, storageKeyOf(form), FALSE).s]

\* FormValidator.validate(formId)
validateForm(w, form) == validateFieldsFrom(w, form, 1, FALSE)

\* FormValidator.reset(formId)
resetFormValidation(w, form) ==
    updateFormCompletion(
        [w EXCEPT !.validation.marking =
                      [f \in DOMAIN @ |-> IF w.validation.formId[f] = form
                                          THEN "none" ELSE @[f]],
                  !.validation.shown =
                      [f \in DOMAIN @ |-> IF w.validation.formId[f] = form
                                          THEN NoError ELSE @[f]],
                  !.validation.errors = [f \in DOMAIN @ |-> <<>>],
                  !.validation.touched = {}],
        form)

\* validateCurrentStep of the form controller: FormValidator.validateField
\* on the fields of the step shown
validateStepFields(w) == validateFieldOn(w, w.state.currentStep)

\* validateAllSteps of the form controller: on the fields of every step
RECURSIVE validateAllFields(_, _)
validateAllFields(w, i) ==
    IF i > NumSteps THEN w ELSE validateAllFields(validateFieldOn(w, i), i + 1)

(***************************************************************************)
(* State.                                                                  *)
(***************************************************************************)
VARIABLES
    store,      \* local-storage.js: [avail, native, memory], by isSession
    env,        \* the browser's native storage: [mode, quota]
    obs,        \* the last operation on the page and what it returned
    state,      \* form-handler.js: the controller's state object
    page,       \* the document of the form
    tasks,      \* continuations after an await, submissions under way
    clock,      \* the instant the browser's clock tells
    validation  \* accessibility.js: the validation module's state and marks

vars == <<store, env, obs, state, page, tasks, clock, validation>>
formVars == <<state, page, tasks, clock, validation>>

Scopes == BOOLEAN

EmptyStore ==
    [avail |-> [b \in Scopes |-> FALSE],
     native |-> [b \in Scopes |-> <<>>],
     memory |-> [b \in Scopes |-> <<>>]]

NoCall ==
    [op |-> "none", key |-> <<>>, isSession |-> FALSE, val |-> Undef, ret |-> Undef,
     path |-> "none"]
Call(op, key, isSession, val, ret) ==
    [op |-> op, key |-> key, isSession |-> isSession, val |-> val, ret |-> ret,
     path |-> "none"]

\* The controller and the document as initFormHandler leaves them on a page
\* with nothing saved.
InitialState ==
    [currentStep |-> 1, formData |-> <<>>, isSubmitting |-> FALSE,
     autoSaveTimer |-> FALSE, currentDraftId |-> JNull]
InitialPage ==
    [active |-> 1, fields |-> [i \in 1..NumSteps |-> <<>>], error |-> NoMessage,
     submitBtn |-> [disabled |-> FALSE, text |-> "Submit"], redirect |-> FALSE,
     inputTimer |-> FALSE]
InitialTasks == [mq |-> <<>>, open |-> FALSE, fetch |-> 0, body |-> 0, simulate |-> 0]

FormIdle ==
    /\ state = InitialState
    /\ page = InitialPage
    /\ tasks = InitialTasks
    /\ clock = 0
    /\ validation = InitialValidation([f \in 1..NumSteps |-> NominationForm])

(***************************************************************************)
(* The storage adapter driven by a page: every public operation, on keys   *)
(* and values drawn from small sets.                                       *)
(***************************************************************************)
StoreQuota == 24

KeyK == <<"k">>
KeyTemp == PrefixTemp \o <<"a">>
KeyStamp == <<"x">> \o TimestampMark \o <<"1">>
StoreKeyInputs == {KeyK, KeyConstructor, KeyTemp, KeyStamp}

LongText == [i \in 1..12 |-> "a"]
StoreValueInputs ==
    {JStr(<<"1">>), JNum(1), JArr(<<JStr(<<"a">>)>>), JStr(LongText)}

\* What a page stores: any value under the plain key of the persistent
\* scope, a short string under the evictable keys and in the session scope.
StoreInputs ==
    {<<KeyK, v, FALSE>> : v \in StoreValueInputs}
    \cup {<<k, JStr(<<"a">>), FALSE>> : k \in {KeyTemp, KeyStamp}}
    \cup {<<KeyK, JStr(<<"a">>), TRUE>>}

\* The keys a page asks for in each scope.
KeyInputs(isSession) == IF isSession THEN {KeyK} ELSE StoreKeyInputs

InitStore ==
    /\ store = EmptyStore
    /\ env \in {[mode |-> m, quota |-> StoreQuota] : m \in {"ok", "raise"}}
    /\ obs = NoCall
    /\ FormIdle

DoInitLocalStorage ==
    /\ store' = initLocalStorage(store, env)
    /\ obs' = Call("init", <<>>, FALSE, Undef, Undef)
    /\ UNCHANGED <<env, formVars>>

DoSet ==
    \E in \in StoreInputs :
        LET r == StorageSet(store, env, in[1], in[2], in[3])
        IN  /\ store' = r.s
            /\ obs' = [Call("set", in[1], in[3], in[2], JBool(r.ret))
                           EXCEPT !.path = r.path]
            /\ UNCHANGED <<env, formVars>>

DoGet ==
    \E b \in Scopes : \E k \in KeyInputs(b) :
        /\ obs' = Call("get", k, b, Undef, StorageGet(store, env, k, b))
        /\ UNCHANGED <<store, env, formVars>>

DoHas ==
    \E b \in Scopes : \E k \in KeyInputs(b) :
        /\ obs' = Call("has", k, b, Undef, JBool(StorageHas(store, env, k, b)))
        /\ UNCHANGED <<store, env, formVars>>

DoKeys ==
    \E b \in Scopes :
        /\ obs' = Call("keys", <<>>, b, Undef,
                       JArr([i \in 1..Len(StorageKeys(store, env, b)) |->
                                JStr(StorageKeys(store, env, b)[i])]))
        /\ UNCHANGED <<store, env, formVars>>

DoSize ==
    \E b \in Scopes :
        /\ obs' = Call("size", <<>>, b, Undef, JNum(StorageSize(store, env, b)))
        /\ UNCHANGED <<store, env, formVars>>

DoRemove ==
    \E b \in Scopes : \E k \in KeyInputs(b) :
        LET r == StorageRemove(store, env, k, b)
        IN  /\ store' = r.s
            /\ obs' = Call("remove", k, b, Undef, JBool(r.ret))
            /\ UNCHANGED <<env, formVars>>

DoClear ==
    \E b \in Scopes :
        LET r == StorageClear(store, env, b)
        IN  /\ store' = r.s
            /\ obs' = Call("clear", <<>>, b, Undef, JBool(r.ret))
            /\ UNCHANGED <<env, formVars>>

NextStore ==
    \/ DoInitLocalStorage
    \/ DoSet
    \/ DoGet
    \/ DoHas
    \/ DoKeys
    \/ DoSize
    \/ DoRemove
    \/ DoClear

SpecStore == InitStore /\ [][NextStore]_vars

(***************************************************************************)
(* The form page: the user, scripts calling window.FormHandler, timers and *)
(* the network. A handler runs to its end or to its next await; what       *)
(* follows an await runs later, in the order the awaits were reached,      *)
(* after the task that reached them has ended.                             *)
(***************************************************************************)
MaxOverlap == 2
FormQuota == 600

FieldValues == {<<>>, <<"a">>}
RefInputs == {<<"R", "1">>}

\* What obs holds after an operation that returns nothing.
PageEvent == [op |-> "page"]

\* What obs holds after handleSubmit has finished: what had become of the
\* fetch, and the answer handleSubmit was given.
Settled(cause, answer) == [op |-> "settled", cause |-> cause, answer |-> answer]

World ==
    [state |-> state, page |-> page, tasks |-> tasks, store |-> store,
     env |-> env, clock |-> clock, validation |-> validation]

Commit(w) ==
    /\ state' = w.state
    /\ page' = w.page
    /\ tasks' = w.tasks
    /\ store' = w.store
    /\ clock' = w.clock
    /\ validation' = w.validation
    /\ UNCHANGED env

\* No continuation waits: a timer or the network may start the next task.
Idle == tasks.mq = <<>>
\* The user and the page's scripts start a task when the page is at rest,
\* the timers of the last one (autoSaveDelay) expired.
AtRest == Idle /\ ~state.autoSaveTimer /\ ~page.inputTimer
\* A handler may be called: by a new task, or by the task still running.
CanCall == AtRest \/ tasks.open
Underway == Len(tasks.mq) + tasks.fetch + tasks.body + tasks.simulate
Called(w) == [w EXCEPT !.tasks.open = (w.tasks.mq # <<>>)]

Init ==
    /\ env \in {[mode |-> m, quota |-> FormQuota] : m \in {"ok", "raise"}}
    /\ store = initLocalStorage(EmptyStore, env)
    /\ obs = PageEvent
    /\ FormIdle

\* The user types in the field of the step shown and leaves it: the form's
\* input listener restarts its debounce timer, its change listener runs
\* handleAutoSave.
UserEdit ==
    \E v \in FieldValues :
        /\ AtRest
        /\ v # page.fields[page.active]
        /\ Commit(handleAutoSave([World EXCEPT !.page.fields[page.active] = v,
                                               !.page.inputTimer = TRUE]))
        /\ obs' = PageEvent

\* The debounce timer of the input listener expires.
InputTimerFires ==
    /\ Idle
    /\ page.inputTimer
    /\ Commit(handleAutoSave([World EXCEPT !.page.inputTimer = FALSE]))
    /\ obs' = PageEvent

\* state.autoSaveTimer expires.
AutoSaveTimerFires ==
    /\ Idle
    /\ state.autoSaveTimer
    /\ Commit(performAutoSave([World EXCEPT !.state.autoSaveTimer = FALSE]))
    /\ obs' = PageEvent

\* The next button, or FormHandler.nextStep().
CallNext ==
    /\ CanCall
    /\ Underway < MaxOverlap
    /\ Commit(Called(handleNextCall(World)))
    /\ obs' = PageEvent

\* The previous button, or FormHandler.previousStep().
CallPrev ==
    /\ CanCall
    /\ Commit(Called(handlePrev(World)))
    /\ obs' = PageEvent

\* FormHandler.goToStep(j)
CallGoToStep ==
    \E j \in 1..(NumSteps + 1) :
        /\ CanCall
        /\ Commit(Called(goToStep(World, j)))
        /\ obs' = PageEvent

\* A click on step indicator j.
ClickIndicator ==
    \E j \in 1..NumSteps :
        /\ AtRest
        /\ Commit(indicatorClick(World, j))
        /\ obs' = PageEvent

\* The submit button, the form's submit event, or FormHandler.submit().
CallSubmit ==
    /\ CanCall
    /\ Underway < MaxOverlap
    /\ Commit(Called(handleSubmitCall(World)))
    /\ obs' = PageEvent

\* The oldest waiting continuation runs.
RunMicrotask ==
    /\ tasks.mq # <<>>
    /\ LET c == Head(tasks.mq)
           w == [World EXCEPT !.tasks.mq = Tail(@), !.tasks.open = FALSE]
       IN  /\ Commit(IF c.kind = "next" THEN handleNextResume(w, c)
                     ELSE handleSubmitResume(w, c))
           /\ obs' = PageEvent

\* submitForm: what the fetch of one submission comes to. A rejection with
\* a TypeError hands the submission to simulateSubmission; a response that
\* is not ok, and the abort of the timeout, are rethrown to handleSubmit.
FetchOutcomes == {"success", "refused", "http", "timeout", "network"}

FetchAnswer(outcome, r) ==
    CASE outcome = "success" -> [thrown |-> FALSE, success |-> TRUE, text |-> r]
      [] outcome = "refused" ->
            [thrown |-> FALSE, success |-> FALSE, text |-> MsgSubmissionFailed]
      [] outcome = "http" -> [thrown |-> TRUE, success |-> FALSE, text |-> MsgHttp]
      [] outcome = "timeout" -> [thrown |-> TRUE, success |-> FALSE, text |-> MsgAborted]

FetchSettles ==
    \E outcome \in FetchOutcomes : \E r \in RefInputs :
        /\ Idle
        /\ tasks.fetch > 0
        /\ LET w == [World EXCEPT !.tasks.fetch = @ - 1]
           IN  IF outcome = "network"
               THEN /\ Commit([w EXCEPT !.tasks.simulate = @ + 1])
                    /\ obs' = [op |-> "fetchFailed"]
               ELSE /\ Commit(handleSubmitSettle(w, FetchAnswer(outcome, r)))
                    /\ obs' = Settled(outcome, FetchAnswer(outcome, r))

\* The timer of simulateSubmission expires: Math.random() decides.
SimulateSettles ==
    \E success \in BOOLEAN : \E r \in RefInputs :
        LET answer == [thrown |-> FALSE, success |-> success,
                       text |-> IF success THEN r ELSE MsgSimulated]
        IN  /\ Idle
            /\ tasks.simulate > 0
            /\ Commit(handleSubmitSettle([World EXCEPT !.tasks.simulate = @ - 1], answer))
            /\ obs' = Settled("network", answer)

Next ==
    \/ UserEdit
    \/ InputTimerFires
    \/ AutoSaveTimerFires
    \/ CallNext
    \/ CallPrev
    \/ CallGoToStep
    \/ ClickIndicator
    \/ CallSubmit
    \/ RunMicrotask
    \/ FetchSettles
    \/ SimulateSettles

Spec == Init /\ [][Next]_vars

(***************************************************************************)
(* The draft list of the form page: saveDraft and deleteDraft called on a  *)
(* page whose list is empty, the persistent scope holding DraftQuota       *)
(* characters or every native call raising.                                *)
(***************************************************************************)
MaxDraftSaves == 6
DraftQuota == 395

\* What prompt() returns: a name typed, or null when it was dismissed.
PromptAnswers == {JStr(<<"n">>), JNull}
toLocaleDateString == <<"1", "1", "/", "1", "/", "2", "0", "2", "6">>
\* prompt(...) || `Draft ${new Date().toLocaleDateString()}`
promptedName(answer) ==
    IF Truthy(answer) THEN answer.v
    ELSE <<"D", "r", "a", "f", "t", " ">> \o toLocaleDateString

DraftSaved == [op |-> "saveDraft"]
DraftDeleted == [op |-> "deleteDraft"]

InitDraft ==
    /\ env \in {[mode |-> m, quota |-> DraftQuota] : m \in {"ok", "raise"}}
    /\ store = initLocalStorage(EmptyStore, env)
    /\ obs = PageEvent
    /\ FormIdle

\* The save-draft button: the clock has moved on since the last save.
DraftSave ==
    \E answer \in PromptAnswers :
        /\ clock < MaxDraftSaves
        /\ Commit([saveDraft(World, promptedName(answer)) EXCEPT !.clock = @ + 1])
        /\ obs' = DraftSaved

\* The ids of the delete buttons loadDraftsList has rendered.
DraftIds(list) == {Prop(list[i], NameId).v : i \in 1..Len(list)}

\* The delete button of a draft the list shows, and the answer to confirm().
DraftDelete ==
    \E draftId \in DraftIds(storedDrafts(World).v), confirmed \in BOOLEAN :
        /\ Commit(deleteDraft(World, draftId, confirmed))
        /\ obs' = DraftDeleted

NextDraft ==
    \/ DraftSave
    \/ DraftDelete

SpecDraft == InitDraft /\ [][NextDraft]_vars

(***************************************************************************)
(* Drafts on a page in use: the user edits fields and moves between steps, *)
(* saves drafts and loads them again.                                      *)
(***************************************************************************)
MaxLoadSaves == 1

DraftLoaded(id) == [op |-> "loadDraft", id |-> id]

InitLoad ==
    /\ env = [mode |-> "ok", quota |-> FormQuota]
    /\ store = initLocalStorage(EmptyStore, env)
    /\ obs = PageEvent
    /\ FormIdle

\* The save-draft button, the prompt answered with a name.
LoadSave ==
    /\ AtRest
    /\ clock < MaxLoadSaves
    /\ Commit([saveDraft(World, <<"n">>) EXCEPT !.clock = @ + 1])
    /\ obs' = DraftSaved

\* The load button of a draft the list shows.
DraftLoad ==
    \E draftId \in DraftIds(storedDrafts(World).v) :
        /\ AtRest
        /\ Commit(loadDraft(World, draftId))
        /\ obs' = DraftLoaded(draftId)

NextLoad ==
    \/ UserEdit
    \/ InputTimerFires
    \/ AutoSaveTimerFires
    \/ CallGoToStep
    \/ LoadSave
    \/ DraftLoad

SpecLoad == InitLoad /\ [][NextLoad]_vars

(***************************************************************************)
(* validateField alone: the page holds one field drawn from the fields     *)
(* below; once it is validated obs holds the field, the rules kept for it  *)
(* and the outcome.                                                        *)
(***************************************************************************)
MaxMinLength == 2
MaxValueLen == 3

Repeat(c, n) == [k \in 1..n |-> c]

\* Every text of letters and blanks up to MaxValueLen, and texts that meet
\* or miss each of the other rules by one character.
ValueInputs ==
    UNION {[1..n -> {"a", " "}] : n \in 0..MaxValueLen}
    \cup { <<"a", "@", "b", ".", "c">>, <<"a", "@", "b">>, <<"1", "2">>,
           Repeat("1", 10), Repeat("1", 9), <<"+", "1", " ">> \o Repeat("2", 9),
           <<"h", "r">>, <<"H", "R">>, <<"x", "x">>,
           <<"m", "y", " ", "m", "a", "n", "a", "g", "e", "r">>,
           Repeat("m", 10),
           Repeat("a", minStoryLength), Repeat("a", minStoryLength - 1) }

LengthAttributes == {<<>>} \cup {Digits(n) : n \in 1..MaxMinLength}

FieldInputs ==
    [id : {"", "f"}, name : {"", "story", "department", "relationship"},
     type : {"text", "email", "tel"}, required : BOOLEAN,
     minlength : LengthAttributes, maxlength : {<<>>, Digits(MaxMinLength)},
     pattern : {<<>>, PatternDigits, PatternBroken},
     value : ValueInputs, checked : {0}]
    \cup
    [id : {"q"}, name : {"qualities"}, type : {"checkbox"}, required : BOOLEAN,
     minlength : {<<>>}, maxlength : {<<>>}, pattern : {<<>>},
     value : {<<>>}, checked : 0..2]

Validated(field, rules) ==
    [op |-> "validateField", field |-> field, rules |-> rules,
     result |-> validateFieldRules(rules, field)]

\* The page holds one field, not validated yet.
FieldDrawn(field) == [op |-> "field", field |-> field]

InitRules ==
    /\ env = [mode |-> "ok", quota |-> FormQuota]
    /\ store = initLocalStorage(EmptyStore, env)
    /\ obs \in {FieldDrawn(field) : field \in FieldInputs}
    /\ FormIdle

ValidateAField ==
    /\ obs.op = "field"
    /\ obs' = Validated(obs.field, fieldRules(obs.field))
    /\ UNCHANGED <<store, env, formVars>>

NextRules == ValidateAField

SpecRules == InitRules /\ [][NextRules]_vars

(***************************************************************************)
(* The form page with its validation module: the user edits and leaves     *)
(* the field of the step shown and asks for the next step or for the       *)
(* submission, one call at a time; both modules' listeners run.            *)
(***************************************************************************)
\* The page is at rest for the validation module too.
AtEase == AtRest /\ validation.inputTimer = {}

\* What obs holds after next or submit was asked for: the fields validated.
Asked(what, fields) == [op |-> "asked", what |-> what, fields |-> fields]

\* The markup may or may not disable the submit control.
InitValidate ==
    /\ env = [mode |-> "ok", quota |-> FormQuota]
    /\ store = initLocalStorage(EmptyStore, env)
    /\ obs = PageEvent
    /\ state = InitialState
    /\ page \in {[InitialPage EXCEPT !.submitBtn.disabled = b] : b \in BOOLEAN}
    /\ tasks = InitialTasks
    /\ clock = 0
    /\ validation = InitialValidation([f \in 1..NumSteps |-> NominationForm])

\* The user types in the field of the step shown and commits the value:
\* both input listeners restart their debounce timers, the field's change
\* listener runs handleFieldChange, then the form's runs handleAutoSave.
FieldEdit ==
    \E v \in FieldValues :
        /\ AtEase
        /\ v # page.fields[page.active]
        /\ Commit(handleAutoSave(handleFieldChange(
               [World EXCEPT !.page.fields[page.active] = v,
                             !.page.inputTimer = TRUE,
                             !.validation.inputTimer = @ \cup {page.active}],
               page.active)))
        /\ obs' = PageEvent

\* The user leaves the field of the step shown.
FieldBlur ==
    /\ AtEase
    /\ Commit(handleFieldBlur(World, page.active))
    /\ obs' = PageEvent

\* The debounce timer of a field's input listener (debounceDelay) expires.
FieldInputFires ==
    \E f \in validation.inputTimer :
        /\ Idle
        /\ Commit(handleFieldInput([World EXCEPT !.validation.inputTimer = @ \ {f}], f))
        /\ obs' = PageEvent

\* The timers of the form controller (autoSaveDelay) expire later.
FormInputFires == validation.inputTimer = {} /\ InputTimerFires

FormAutoSaveFires == validation.inputTimer = {} /\ AutoSaveTimerFires

AskNext ==
    /\ AtEase
    /\ Underway = 0
    /\ Commit(Called(handleNextCall(validateStepFields(World))))
    /\ obs' = Asked("next", {state.currentStep})

AskPrev == AtEase /\ Underway = 0 /\ CallPrev

AskSubmit ==
    /\ AtEase
    /\ Underway = 0
    /\ Commit(Called(handleSubmitCall(validateAllFields(World, 1))))
    /\ obs' = Asked("submit", 1..NumSteps)

\* The form's submit event: handleFormSubmit and handleSubmit both listen.
SubmitEvent ==
    /\ AtEase
    /\ Underway = 0
    /\ Commit(Called(handleSubmitCall(handleFormSubmit(World, NominationForm))))
    /\ obs' = Asked("submit event", 1..NumSteps)

\* The oldest waiting continuation runs; handleNext on the last step calls
\* handleSubmit, whose validateAllSteps validates every field.
RunValidatedMicrotask ==
    /\ tasks.mq # <<>>
    /\ LET c == Head(tasks.mq)
           w == [World EXCEPT !.tasks.mq = Tail(@), !.tasks.open = FALSE]
       IN  /\ Commit(IF c.kind = "submit" THEN handleSubmitResume(w, c)
                     ELSE IF c.valid /\ w.state.currentStep >= NumSteps
                     THEN handleNextResume(validateAllFields(w, 1), c)
                     ELSE handleNextResume(w, c))
           /\ obs' = PageEvent

NextValidate ==
    \/ FieldEdit
    \/ FieldBlur
    \/ FieldInputFires
    \/ FormInputFires
    \/ FormAutoSaveFires
    \/ AskNext
    \/ AskPrev
    \/ AskSubmit
    \/ SubmitEvent
    \/ RunValidatedMicrotask
    \/ FetchSettles
    \/ SimulateSettles

SpecValidate == InitValidate /\ [][NextValidate]_vars

(***************************************************************************)
(* The validation module alone, on a page with two validated forms and no  *)
(* nomination form: the last field belongs to the second form.  The user   *)
(* edits and leaves fields and submits a form; a script validates or       *)
(* resets a form through FormValidator.                                    *)
(* validation.attended is a history variable, no state of the module: the  *)
(* fields blurred or part of a submit attempt since their form was last    *)
(* reset.                                                                  *)
(***************************************************************************)
FeedbackForm == <<"f", "e", "e", "d", "b", "a", "c", "k">>

TouchForms == {FeedbackForm, ContactForm}

TouchFormId == [f \in 1..NumSteps |-> IF f = NumSteps THEN ContactForm ELSE FeedbackForm]

Attended(w, fields) == [w EXCEPT !.validation.attended = @ \cup fields]

\* What obs holds after FormValidator.validate(form).
FormValidated(form) == [op |-> "validate", form |-> form]

InitTouch ==
    /\ env = [mode |-> "ok", quota |-> FormQuota]
    /\ store = initLocalStorage(EmptyStore, env)
    /\ obs = PageEvent
    /\ state = InitialState
    /\ page = InitialPage
    /\ tasks = InitialTasks
    /\ clock = 0
    /\ validation = InitialValidation(TouchFormId)

\* The user types in a field and commits the value.
TouchEdit ==
    \E f \in 1..NumSteps, v \in FieldValues :
        /\ validation.inputTimer = {}
        /\ v # page.fields[f]
        /\ Commit(handleFieldChange(
               [World EXCEPT !.page.fields[f] = v, !.validation.inputTimer = @ \cup {f}],
               f))
        /\ obs' = PageEvent

\* The user leaves a field.
TouchBlur ==
    \E f \in 1..NumSteps :
        /\ validation.inputTimer = {}
        /\ Commit(Attended(handleFieldBlur(World, f), {f}))
        /\ obs' = PageEvent

\* The submit event of a form.
TouchSubmit ==
    \E form \in TouchForms :
        /\ validation.inputTimer = {}
        /\ Commit(Attended(handleFormSubmit(World, form), FieldsOf(World, form)))
        /\ obs' = PageEvent

TouchValidate ==
    \E form \in TouchForms :
        /\ validation.inputTimer = {}
        /\ Commit(validateForm(World, form))
        /\ obs' = FormValidated(form)

TouchReset ==
    \E form \in TouchForms :
        /\ validation.inputTimer = {}
        /\ Commit([resetFormValidation(World, form)
                      EXCEPT !.validation.attended = @ \ FieldsOf(World, form)])
        /\ obs' = [op |-> "reset"]

NextTouch ==
    \/ TouchEdit
    \/ TouchBlur
    \/ FieldInputFires
    \/ TouchSubmit
    \/ TouchValidate
    \/ TouchReset

SpecTouch == InitTouch /\ [][NextTouch]_vars

(***************************************************************************)
(* functions/submit-nomination.js: the handler of the submission endpoint, *)
(* from an event, the date and the number Math.random() gives to the       *)
(* response.  An event is [httpMethod, headers, body]: headers is          *)
(* undefined or an object, body is null or a string.                       *)
(***************************************************************************)
NameContentType == <<"c", "o", "n", "t", "e", "n", "t", "-", "t", "y", "p", "e">>
ApplicationJson ==
    <<"a", "p", "p", "l", "i", "c", "a", "t", "i", "o", "n", "/", "j", "s", "o", "n">>
TextPlain == <<"t", "e", "x", "t", "/", "p", "l", "a", "i", "n">>
NameError == <<"e", "r", "r", "o", "r">>
NameSuccess == <<"s", "u", "c", "c", "e", "s", "s">>
NameReferenceNumber ==
    <<"r", "e", "f", "e", "r", "e", "n", "c", "e", "N", "u", "m", "b", "e", "r">>
TextMethodNotAllowed ==
    <<"M", "e", "t", "h", "o", "d", " ", "N", "o", "t", " ", "A", "l", "l", "o", "w", "e", "d">>
\* The messages of the TypeError and of the SyntaxError, shortened.
TextTypeError == <<"T", "y", "p", "e", "E", "r", "r", "o", "r">>
TextSyntaxError == <<"S", "y", "n", "t", "a", "x", "E", "r", "r", "o", "r">>

\* text.padStart(n, c)
padStart(text, n, c) == IF Len(text) >= n THEN text ELSE Repeat(c, n - Len(text)) \o text

\* The reference number for a year, a month (from 1) and floor(random * 10000)
ReferenceNumber(year, month, random) ==
    <<"R", "A", "R", "E", "-">> \o Digits(year) \o padStart(Digits(month), 2, "0")
        \o <<"-">> \o padStart(Digits(random), 4, "0")

Response(statusCode, body) == [statusCode |-> statusCode, body |-> JSONStringify(body)]

BadRequest(message) ==
    Response(400, JObj(<<Member(NameSuccess, JBool(FALSE)), Member(NameError, JStr(message))>>))

\* The try block once event.headers is known to be an object.
handlerTry(event, contentType, year, month, random) ==
    IF /\ Includes(IF Truthy(contentType) THEN contentType.v ELSE <<>>, ApplicationJson)
       /\ ~JSONParse(IF Truthy(event.body) THEN event.body.v ELSE <<"{", "}">>).ok
    THEN BadRequest(TextSyntaxError)
    ELSE Response(200, JObj(<<Member(NameSuccess, JBool(TRUE)),
                              Member(NameReferenceNumber,
                                     JStr(ReferenceNumber(year, month, random)))>>))

handler(event, year, month, random) ==
    IF event.httpMethod # "POST"
    THEN Response(405, JObj(<<Member(NameError, JStr(TextMethodNotAllowed))>>))
    ELSE IF event.headers.t # "obj" THEN BadRequest(TextTypeError)
    ELSE handlerTry(event, Prop(event.headers, NameContentType), year, month, random)

(***************************************************************************)
(* The endpoint called once: obs holds the request, then the request and   *)
(* the response to it.                                                     *)
(***************************************************************************)
Methods == {"POST", "GET", "PUT"}
HeaderInputs ==
    { Undef, JObj(<<>>),
      JObj(<<Member(NameContentType, JStr(TextPlain))>>),
      JObj(<<Member(NameContentType, JStr(ApplicationJson))>>),
      JObj(<<Member(NameContentType,
                    JStr(ApplicationJson \o <<";", " ", "c", "h", "a", "r", "s", "e", "t", "=", "u", "t", "f", "-", "8">>))>>) }
BodyInputs ==
    { JNull, JStr(<<>>), JStr(<<"{", "}">>), JStr(<<"{", "\"", "a", "\"", ":", "1", "}">>),
      JStr(<<"{", "a">>), JStr(<<"a", "=", "1">>) }
Years == {2026}
Months == {1, 9, 10, 12}
Randoms == {0, 7, 42, 999, 1000, 9999}

Request(event, year, month, random) ==
    [op |-> "request", event |-> event, year |-> year, month |-> month, random |-> random]

InitEndpoint ==
    /\ env = [mode |-> "ok", quota |-> FormQuota]
    /\ store = initLocalStorage(EmptyStore, env)
    /\ obs \in {Request([httpMethod |-> m, headers |-> h, body |-> b], y, mo, r) :
                    m \in Methods, h \in HeaderInputs, b \in BodyInputs,
                    y \in Years, mo \in Months, r \in Randoms}
    /\ FormIdle

Respond ==
    /\ obs.op = "request"
    /\ obs' = [obs EXCEPT !.op = "response"] @@
              [response |-> handler(obs.event, obs.year, obs.month, obs.random)]
    /\ UNCHANGED <<store, env, formVars>>

NextEndpoint == Respond

SpecEndpoint == InitEndpoint /\ [][NextEndpoint]_vars

(***************************************************************************)
(* Autosave in time.  The clock counts ticks and autoSaveDelay lasts       *)
(* DelayTicks of them.  The user types in the field of the step shown      *)
(* (an input event) or commits it (a change event); the debounce timer of  *)
(* the input listener and state.autoSaveTimer fire when they are due, the  *)
(* older first when both are.  obs holds, besides the last operation,      *)
(*   inputDue, saveDue   the instants the two timers are due               *)
(*   inputOlder          the input timer was set before the other          *)
(*   requested           the instant of the last input or change event     *)
(*   called              the instant handleAutoSave was last called        *)
(*   fresh               an event has happened since the last write        *)
(***************************************************************************)
DelayTicks == 2
MaxTime == 7

InitAutoSave ==
    /\ env = [mode |-> "ok", quota |-> FormQuota]
    /\ store = initLocalStorage(EmptyStore, env)
    /\ obs = [op |-> "page", inputDue |-> 0, saveDue |-> 0, inputOlder |-> FALSE,
              requested |-> 0, called |-> 0, fresh |-> FALSE]
    /\ FormIdle

\* An input event: the debounced listener restarts its timer.
TimedInput ==
    \E v \in FieldValues :
        /\ v # page.fields[page.active]
        /\ Commit([World EXCEPT !.page.fields[page.active] = v, !.page.inputTimer = TRUE])
        /\ obs' = [obs EXCEPT !.op = "input", !.inputDue = clock + DelayTicks,
                              !.inputOlder = FALSE, !.requested = clock, !.fresh = TRUE]

\* A change event: handleAutoSave runs at once.
TimedChange ==
    /\ Commit(handleAutoSave(World))
    /\ obs' = [obs EXCEPT !.op = "change", !.saveDue = clock + DelayTicks,
                          !.inputOlder = page.inputTimer, !.requested = clock,
                          !.called = clock, !.fresh = TRUE]

\* A timer fires when it is due and the other, if due too, is not older.
InputDue == page.inputTimer /\ obs.inputDue = clock
SaveDue == state.autoSaveTimer /\ obs.saveDue = clock

TimedInputFires ==
    /\ InputDue
    /\ SaveDue => obs.inputOlder
    /\ Commit(handleAutoSave([World EXCEPT !.page.inputTimer = FALSE]))
    /\ obs' = [obs EXCEPT !.op = "debounced", !.saveDue = clock + DelayTicks,
                          !.inputOlder = FALSE, !.called = clock]

TimedSaveFires ==
    /\ SaveDue
    /\ InputDue => ~obs.inputOlder
    /\ Commit(performAutoSave([World EXCEPT !.state.autoSaveTimer = FALSE]))
    /\ obs' = [obs EXCEPT !.op = "write", !.fresh = FALSE]

Tick ==
    /\ clock < MaxTime
    /\ ~InputDue /\ ~SaveDue
    /\ Commit([World EXCEPT !.clock = @ + 1])
    /\ obs' = [obs EXCEPT !.op = "tick"]

NextAutoSave ==
    \/ TimedInput
    \/ TimedChange
    \/ TimedInputFires
    \/ TimedSaveFires
    \/ Tick

SpecAutoSave == InitAutoSave /\ [][NextAutoSave]_vars

(***************************************************************************)
(* A page opened over a damaged store: one of the form's two keys holds a  *)
(* text the form did not write.  The state is the one initFormHandler      *)
(* leaves (loadAutoSave has run); the user then edits, moves and saves a   *)
(* draft.                                                                  *)
(***************************************************************************)
CorruptKeys == {AutoSaveCurrent, draftsKey}
CorruptTexts == {<<"{", "a">>, <<"{", "}">>, <<"5">>, <<"0">>}

Planted(e, key, text) ==
    [initLocalStorage(EmptyStore, e) EXCEPT !.native[FALSE] = NativePut(@, key, text)]

Opened(key, text) == [op |-> "opened", key |-> key, text |-> text]

OpenedOver(w) ==
    /\ state = w.state
    /\ page = w.page
    /\ tasks = w.tasks
    /\ clock = w.clock
    /\ validation = w.validation

InitCorrupt ==
    /\ env = [mode |-> "ok", quota |-> FormQuota]
    /\ \E key \in CorruptKeys, text \in CorruptTexts :
        /\ store = Planted(env, key, text)
        /\ obs = Opened(key, text)
    /\ OpenedOver(loadAutoSave(
            [state |-> InitialState, page |-> InitialPage, tasks |-> InitialTasks,
             store |-> store, env |-> env, clock |-> 0,
             validation |-> InitialValidation([f \in 1..NumSteps |-> NominationForm])]))

NextCorrupt ==
    \/ UserEdit
    \/ InputTimerFires
    \/ AutoSaveTimerFires
    \/ CallGoToStep
    \/ LoadSave

SpecCorrupt == InitCorrupt /\ [][NextCorrupt]_vars

(***************************************************************************)
(* A page opened over a store whose autosave entry and whose one draft     *)
(* hold step values the form did not write.  The state is the one          *)
(* initFormHandler leaves (loadAutoSave has run); the user and the page's  *)
(* scripts then move between the steps, submit, and load the draft.        *)
(***************************************************************************)
StoredSteps == {JNum(0), JNum(2), JNum(NumSteps + 1), JStr(StepText)}
StoredDraftId == <<"d">>

\* The autosave entry fills every field, the draft empties the last one.
SavedFormData == [i \in 1..NumSteps |-> Member(FieldName(i), JStr(<<"a">>))]
DraftFormData == <<Member(FieldName(NumSteps), JStr(<<>>))>>

SavedEntry(step) ==
    JObj(<<Member(NameFormData, JObj(SavedFormData)),
           Member(NameCurrentStep, step),
           Member(NameTimestamp, JStr(toISOString(0))),
           Member(NameDraftId, JStr(StoredDraftId))>>)

StoredDraft(step) ==
    JObj(<<Member(NameId, JStr(StoredDraftId)),
           Member(NameName, JStr(<<"n">>)),
           Member(NameFormData, JObj(DraftFormData)),
           Member(NameCurrentStep, step),
           Member(NameCreatedAt, JStr(toISOString(0)))>>)

StoredOver(e, saved, draft) ==
    [initLocalStorage(EmptyStore, e) EXCEPT
        !.native[FALSE] =
            NativePut(NativePut(@, AutoSaveCurrent, JSONStringify(SavedEntry(saved))),
                      draftsKey, JSONStringify(JArr(<<StoredDraft(draft)>>)))]

InitRestore ==
    /\ env = [mode |-> "ok", quota |-> FormQuota]
    /\ \E saved \in StoredSteps, draft \in StoredSteps :
        store = StoredOver(env, saved, draft)
    /\ obs = PageEvent
    /\ OpenedOver(loadAutoSave(
            [state |-> InitialState, page |-> InitialPage, tasks |-> InitialTasks,
             store |-> store, env |-> env, clock |-> 0,
             validation |-> InitialValidation([f \in 1..NumSteps |-> NominationForm])]))

\* The load button of the stored draft.
RestoreDraft ==
    /\ AtRest
    /\ Commit(loadDraft(World, StoredDraftId))
    /\ obs' = DraftLoaded(StoredDraftId)

NextRestore ==
    \/ CallNext
    \/ CallPrev
    \/ CallGoToStep
    \/ RunMicrotask
    \/ FetchSettles
    \/ SimulateSettles
    \/ AutoSaveTimerFires
    \/ RestoreDraft

SpecRestore == InitRestore /\ [][NextRestore]_vars

(***************************************************************************)
(* Submission with the two awaits of submitForm apart: fetch settles when  *)
(* the response's headers have come (or it rejects, or the timer of        *)
(* submitTimeout aborts it), and response.json() settles when the body has *)
(* come.  tasks.body counts the submissions waiting on response.json().    *)
(* The page opens with the values the browser has kept for its fields     *)
(* (it restores them without an event).  The timers and the microtasks run *)
(* when they can; the network owes nothing.                                *)
(***************************************************************************)
InitSubmit ==
    /\ env = [mode |-> "ok", quota |-> FormQuota]
    /\ store = initLocalStorage(EmptyStore, env)
    /\ obs = PageEvent
    /\ state = InitialState
    /\ \E fields \in [1..NumSteps -> FieldValues] :
            page = [InitialPage EXCEPT !.fields = fields]
    /\ tasks = InitialTasks
    /\ clock = 0
    /\ validation = InitialValidation([f \in 1..NumSteps |-> NominationForm])

\* What obs holds after handleSubmit has finished, here.
Ended(cause) == [op |-> "settled", cause |-> cause]

\* fetch resolves with a response that is ok: clearTimeout(timeoutId), and
\* submitForm awaits response.json().
HeadersArrive ==
    /\ Idle
    /\ tasks.fetch > 0
    /\ Commit([World EXCEPT !.tasks.fetch = @ - 1, !.tasks.body = @ + 1])
    /\ obs' = PageEvent

\* response.json() resolves with the body the endpoint sent.
BodyArrives ==
    \E outcome \in {"success", "refused"} : \E r \in RefInputs :
        /\ Idle
        /\ tasks.body > 0
        /\ Commit(handleSubmitSettle([World EXCEPT !.tasks.body = @ - 1],
                                     FetchAnswer(outcome, r)))
        /\ obs' = Ended(outcome)

\* fetch rejects with a TypeError, or resolves with a response that is not
\* ok.
FetchFails ==
    \E outcome \in {"http", "network"} :
        /\ Idle
        /\ tasks.fetch > 0
        /\ LET w == [World EXCEPT !.tasks.fetch = @ - 1]
           IN  IF outcome = "network"
               THEN /\ Commit([w EXCEPT !.tasks.simulate = @ + 1])
                    /\ obs' = [op |-> "fetchFailed"]
               ELSE /\ Commit(handleSubmitSettle(w, FetchAnswer(outcome, <<>>)))
                    /\ obs' = Ended(outcome)

\* The timer of submitTimeout fires while fetch is pending:
\* controller.abort() rejects it with an AbortError.
SubmitTimeoutFires ==
    /\ Idle
    /\ tasks.fetch > 0
    /\ Commit(handleSubmitSettle([World EXCEPT !.tasks.fetch = @ - 1],
                                 FetchAnswer("timeout", <<>>)))
    /\ obs' = Ended("timeout")

\* The timer of simulateSubmission expires: Math.random() decides.
SimulationEnds ==
    \E success \in BOOLEAN : \E r \in RefInputs :
        /\ Idle
        /\ tasks.simulate > 0
        /\ Commit(handleSubmitSettle(
                [World EXCEPT !.tasks.simulate = @ - 1],
                [thrown |-> FALSE, success |-> success,
                 text |-> IF success THEN r ELSE MsgSimulated]))
        /\ obs' = Ended("network")

NextSubmit ==
    \/ CallSubmit
    \/ RunMicrotask
    \/ HeadersArrive
    \/ BodyArrives
    \/ FetchFails
    \/ SubmitTimeoutFires
    \/ SimulationEnds

SpecSubmit ==
    /\ InitSubmit
    /\ [][NextSubmit]_vars
    /\ WF_vars(RunMicrotask)
    /\ WF_vars(SubmitTimeoutFires)
    /\ WF_vars(SimulationEnds)

(***************************************************************************)
(* updateFormCompletion alone: a form with some number of required fields, *)
(* some of them valid, and the completion the validation pass computes.    *)
(***************************************************************************)
MaxRequired == 40

\* completion, as updateFormCompletion computes it
completionOf(valid, all) == IF all > 0 THEN Percentage(valid, all) ELSE 100

FormCounted(all, valid) == [op |-> "form", required |-> all, valid |-> valid]

InitCompletion ==
    /\ env = [mode |-> "ok", quota |-> FormQuota]
    /\ store = initLocalStorage(EmptyStore, env)
    /\ obs \in {FormCounted(all, valid) : all \in 0..MaxRequired, valid \in 0..MaxRequired}
    /\ obs.valid <= obs.required
    /\ FormIdle

\* A validation pass of one field ends in updateFormCompletion.
UpdateCompletion ==
    /\ obs.op = "form"
    /\ obs' = [op |-> "completion", required |-> obs.required, valid |-> obs.valid,
               completion |-> completionOf(obs.valid, obs.required)]
    /\ UNCHANGED <<store, env, state, page, tasks, clock, validation>>

NextCompletion == UpdateCompletion

SpecCompletion == InitCompletion /\ [][NextCompletion]_vars

(***************************************************************************)
(* The storage adapter asked to store the same thing again: set is called  *)
(* with keys and values drawn from small sets, two of the keys carrying    *)
(* the mark of a timestamp, in a store of little capacity.                 *)
(***************************************************************************)
TwiceQuota == 26

KeyStampA == TimestampMark
KeyStampB == TimestampMark \o <<"1">>
TwiceInputs ==
    {<<k, v, FALSE>> : k \in {KeyK, KeyStampA, KeyStampB},
                       v \in {JStr(<<"a">>), JStr(LongText)}}
    \cup {<<KeyK, JNum(1), TRUE>>}

InitTwice ==
    /\ env = [mode |-> "ok", quota |-> TwiceQuota]
    /\ store = initLocalStorage(EmptyStore, env)
    /\ obs = NoCall
    /\ FormIdle

SetDrawn ==
    \E in \in TwiceInputs :
        LET r == StorageSet(store, env, in[1], in[2], in[3])
        IN  /\ store' = r.s
            /\ obs' = [Call("set", in[1], in[3], in[2], JBool(r.ret))
                           EXCEPT !.path = r.path]
            /\ UNCHANGED <<env, formVars>>

NextTwice ==
    \/ SetDrawn
    \/ DoRemove
    \/ DoClear

SpecTwice == InitTwice /\ [][NextTwice]_vars

(***************************************************************************)
(* The relationship rule on its own: a text field, with the name the rule  *)
(* is kept for or without it, holding a text of letters and blanks.        *)
(***************************************************************************)
MaxRelationLen == 11

Coworker == <<"c", "o", "w", "o", "r", "k", "e", "r">>
MyDirectManager ==
    <<"m", "y", " ", "d", "i", "r", "e", "c", "t", " ",
      "m", "a", "n", "a", "g", "e", "r">>

RelationInputs ==
    UNION {[1..n -> {"a", " "}] : n \in 0..MaxRelationLen}
    \cup {Coworker, MyDirectManager}

RelationFields ==
    [id : {"f"}, name : {"", "relationship"}, type : {"text"},
     required : {FALSE}, minlength : {<<>>}, maxlength : {<<>>},
     pattern : {<<>>}, value : RelationInputs, checked : {0}]

InitRelation ==
    /\ env = [mode |-> "ok", quota |-> FormQuota]
    /\ store = initLocalStorage(EmptyStore, env)
    /\ obs \in {FieldDrawn(field) : field \in RelationFields}
    /\ FormIdle

NextRelation == ValidateAField

SpecRelation == InitRelation /\ [][NextRelation]_vars

(***************************************************************************)
(* The form page up to a successful submission and after it: the user      *)
(* edits the form until a submission has succeeded and leaves it alone     *)
(* from then on, while the timers started before go on running.            *)
(***************************************************************************)
\* handleSubmitSuccess has run to its end: the redirect it schedules waits.
SubmissionSucceeded == page.redirect

EditBeforeSuccess ==
    /\ ~SubmissionSucceeded
    /\ UserEdit

NextCleared ==
    \/ EditBeforeSuccess
    \/ InputTimerFires
    \/ AutoSaveTimerFires
    \/ CallNext
    \/ CallSubmit
    \/ RunMicrotask
    \/ FetchSettles
    \/ SimulateSettles

SpecCleared == Init /\ [][NextCleared]_vars

(***************************************************************************)
(* A write, and a read of the same key later in the page load, with        *)
(* initLocalStorage running between them or not: obs keeps the last set    *)
(* until the key is read.                                                  *)
(***************************************************************************)
\* initLocalStorage runs after a set: at DOMContentLoaded for a set of a
\* script that ran while the document loaded, or called by the page again.
InitAfterSet ==
    /\ obs.op \in {"set", "setInit"}
    /\ store' = initLocalStorage(store, env)
    /\ obs' = [obs EXCEPT !.op = "setInit"]
    /\ UNCHANGED <<env, formVars>>

\* get of the key of the last set, in its scope.
GetAfterSet ==
    /\ obs.op \in {"set", "setInit"}
    /\ obs' = [obs EXCEPT !.op = "setGet",
                          !.ret = StorageGet(store, env, obs.key, obs.isSession)]
    /\ UNCHANGED <<store, env, formVars>>

NextAvail ==
    \/ DoInitLocalStorage
    \/ DoSet
    \/ InitAfterSet
    \/ GetAfterSet
    \/ DoRemove

SpecAvail == InitStore /\ [][NextAvail]_vars

(***************************************************************************)
(* js/main.js, the dark mode module. In SpecTheme `state` is the module's  *)
(* state object, `page` the marks of the body element, `tasks` the number  *)
(* of transition timers waiting and store.native[FALSE] the browser's      *)
(* localStorage, which the module reads and writes itself.                 *)
(***************************************************************************)
storageKey == <<"t", "h", "e", "m", "e">>
darkValue == <<"d", "a", "r", "k">>
lightValue == <<"l", "i", "g", "h", "t">>

\* localStorage.getItem(CONFIG.storageKey), null when it raises
getSavedTheme(s, e) ==
    IF e.mode = "raise" THEN JNull ELSE NativeGetItem(s.native[FALSE], storageKey)

saveTheme(s, e, theme) ==
    LET put == NativeSetItem(e, s.native[FALSE], storageKey, theme)
    IN  IF put.err # "none" THEN s ELSE [s EXCEPT !.native[FALSE] = put.items]

\* d is [state, page, tasks]
applyTheme(d, theme, skipTransition) ==
    IF d.state.isTransitioning /\ ~skipTransition THEN d
    ELSE LET starts == ~skipTransition /\ ~d.page.transition
         IN  [state |-> [d.state EXCEPT !.currentTheme = theme,
                                        !.isTransitioning = starts \/ @],
              page |-> [dataTheme |-> IF theme = darkValue THEN darkValue ELSE <<>>,
                        transition |-> starts \/ d.page.transition],
              tasks |-> IF starts THEN d.tasks + 1 ELSE d.tasks]

Document == [state |-> state, page |-> page, tasks |-> tasks]

Shown(d) ==
    /\ state' = d.state
    /\ page' = d.page
    /\ tasks' = d.tasks

\* initDarkMode on a page whose localStorage holds a theme or none
initDarkMode(saved, systemPreference) ==
    applyTheme([state |-> [currentTheme |-> <<>>, systemPreference |-> systemPreference,
                           isTransitioning |-> FALSE],
                page |-> [dataTheme |-> <<>>, transition |-> FALSE],
                tasks |-> 0],
               IF saved = <<>> THEN systemPreference ELSE saved, TRUE)

ThemeInputs == {darkValue, lightValue, <<"x">>}
SavedThemes == {<<>>, darkValue, lightValue}

ThemeCall(op, theme) == [op |-> op, theme |-> theme]

InitTheme ==
    \E saved \in SavedThemes : \E systemPreference \in {darkValue, lightValue} :
        /\ env = [mode |-> "ok", quota |-> FormQuota]
        /\ store = [EmptyStore EXCEPT !.native[FALSE] =
                        IF saved = <<>> THEN <<>> ELSE NativePut(<<>>, storageKey, saved)]
        /\ state = initDarkMode(saved, systemPreference).state
        /\ page = initDarkMode(saved, systemPreference).page
        /\ tasks = initDarkMode(saved, systemPreference).tasks
        /\ obs = ThemeCall("init", <<>>)
        /\ clock = 0
        /\ validation = <<>>

\* The toggle button, Alt + T, or DarkMode.toggle().
toggleTheme ==
    LET newTheme == IF state.currentTheme = darkValue THEN lightValue ELSE darkValue
    IN  /\ Shown(applyTheme(Document, newTheme, FALSE))
        /\ store' = saveTheme(store, env, newTheme)
        /\ obs' = ThemeCall("toggle", newTheme)
        /\ UNCHANGED <<env, clock, validation>>

\* DarkMode.setTheme(theme)
setTheme ==
    \E theme \in ThemeInputs :
        /\ IF theme = darkValue \/ theme = lightValue
           THEN /\ Shown(applyTheme(Document, theme, FALSE))
                /\ store' = saveTheme(store, env, theme)
           ELSE UNCHANGED <<state, page, tasks, store>>
        /\ obs' = ThemeCall("setTheme", theme)
        /\ UNCHANGED <<env, clock, validation>>

\* DarkMode.reset()
resetTheme ==
    /\ store' = [store EXCEPT !.native[FALSE] = RemoveKey(@, storageKey)]
    /\ Shown(applyTheme(Document, state.systemPreference, FALSE))
    /\ obs' = ThemeCall("reset", <<>>)
    /\ UNCHANGED <<env, clock, validation>>

\* The system's colour scheme changes to dark or to light.
handleSystemPreferenceChange ==
    \E newTheme \in {darkValue, lightValue} :
        /\ IF getSavedTheme(store, env) = JNull
           THEN Shown(applyTheme(Document, newTheme, FALSE))
           ELSE UNCHANGED <<state, page, tasks>>
        /\ obs' = ThemeCall("system", newTheme)
        /\ UNCHANGED <<store, env, clock, validation>>

\* The timer of applyTheme expires, transitionDuration after it was set.
TransitionEnds ==
    /\ tasks > 0
    /\ state' = [state EXCEPT !.isTransitioning = FALSE]
    /\ page' = [page EXCEPT !.transition = FALSE]
    /\ tasks' = tasks - 1
    /\ obs' = ThemeCall("transitionEnd", <<>>)
    /\ UNCHANGED <<store, env, clock, validation>>

NextTheme ==
    \/ toggleTheme
    \/ setTheme
    \/ resetTheme
    \/ handleSystemPreferenceChange
    \/ TransitionEnds

SpecTheme == InitTheme /\ [][NextTheme]_vars

(***************************************************************************)
(* js/carousel.js: one carousel with auto-play. In SpecCarousel `state`    *)
(* holds the fields of the Carousel instance, `page` what the pointer and  *)
(* the focus are doing, and `tasks` the interval timers that are active,   *)
(* by their ids.                                                           *)
(***************************************************************************)
NumSlides == 3
MaxTimers == 3
slidesToShow == 1
slidesToScroll == 1

\* setInterval: the id of the new timer
NewTimer(active) == CHOOSE id \in 1..(MaxTimers + 1) :
                        id \notin active /\ \A j \in 1..(id - 1) : j \in active

play(c) ==
    IF NumSlides <= slidesToShow THEN c
    ELSE [c EXCEPT !.state.isPlaying = TRUE,
                   !.state.autoPlayTimer = NewTimer(c.tasks),
                   !.tasks = @ \cup {NewTimer(c.tasks)}]

pause(c) ==
    [c EXCEPT !.state.isPlaying = FALSE,
              !.state.autoPlayTimer = 0,
              !.tasks = IF c.state.autoPlayTimer # 0
                        THEN @ \ {c.state.autoPlayTimer} ELSE @]

toggleAutoPlay(c) == IF c.state.isPlaying THEN pause(c) ELSE play(c)

\* options.autoPlay is true on this carousel
restartAutoPlay(c) == IF ~c.state.isPlaying THEN c ELSE play(pause(c))

\* options.loop is true and the slides are cloned: the index wraps
goToSlide(c, index) ==
    [c EXCEPT !.state.currentIndex =
        IF index < 0 THEN NumSlides - slidesToScroll
        ELSE IF index >= NumSlides THEN 0
        ELSE index]

next(c) == restartAutoPlay(goToSlide(c, c.state.currentIndex + slidesToScroll))

prev(c) == restartAutoPlay(goToSlide(c, c.state.currentIndex - slidesToScroll))

\* The end of a swipe or of a drag: by its length, to the previous slide,
\* to the next one, or back to the current one; then play().
Swipes == {"prev", "next", "snap"}
release(c, swipe) ==
    play(CASE swipe = "prev" -> prev(c)
           [] swipe = "next" -> next(c)
           [] swipe = "snap" -> goToSlide(c, c.state.currentIndex))

CarouselEvent(op) == [op |-> op]

\* A setInterval may be called.
TimerFree(c) == Cardinality(c.tasks) < MaxTimers

\* The constructor on an element with NumSlides slides and data-autoplay.
InitCarousel ==
    /\ env = [mode |-> "ok", quota |-> FormQuota]
    /\ store = EmptyStore
    /\ obs = CarouselEvent("init")
    /\ state = [currentIndex |-> 0, isPlaying |-> TRUE, autoPlayTimer |-> 1,
                isDragging |-> FALSE]
    /\ page = [mouseDown |-> FALSE, hover |-> FALSE, focus |-> FALSE]
    /\ tasks = {1}
    /\ clock = 0
    /\ validation = <<>>

Happens(c) ==
    /\ Shown(c)
    /\ UNCHANGED <<store, env, clock, validation>>

\* carousel.play()
CallPlay ==
    /\ TimerFree(Document)
    /\ Happens(play(Document))
    /\ obs' = CarouselEvent("play")

\* carousel.pause(), or the Escape key
CallPause ==
    /\ Happens(pause(Document))
    /\ obs' = CarouselEvent("pause")

\* The play/pause button
ClickPlayPause ==
    /\ TimerFree(Document)
    /\ Happens(toggleAutoPlay(Document))
    /\ obs' = CarouselEvent("toggle")

\* The next and previous buttons, the arrow keys
ClickNextSlide ==
    /\ Happens(next(Document))
    /\ obs' = CarouselEvent("next")

ClickPrevSlide ==
    /\ Happens(prev(Document))
    /\ obs' = CarouselEvent("prev")

MouseEnter ==
    /\ ~page.hover
    /\ Happens(pause([Document EXCEPT !.page.hover = TRUE]))
    /\ obs' = CarouselEvent("mouseenter")

MouseLeave ==
    /\ page.hover
    /\ TimerFree(Document)
    /\ Happens(play([Document EXCEPT !.page.hover = FALSE]))
    /\ obs' = CarouselEvent("mouseleave")

FocusIn ==
    /\ ~page.focus
    /\ Happens(pause([Document EXCEPT !.page.focus = TRUE]))
    /\ obs' = CarouselEvent("focusin")

FocusOut ==
    /\ page.focus
    /\ TimerFree(Document)
    /\ Happens(play([Document EXCEPT !.page.focus = FALSE]))
    /\ obs' = CarouselEvent("focusout")

TouchStart ==
    /\ Happens(pause([Document EXCEPT !.state.isDragging = TRUE]))
    /\ obs' = CarouselEvent("touchstart")

TouchEnd ==
    \E swipe \in Swipes :
        /\ state.isDragging
        /\ TimerFree(Document)
        /\ Happens(release([Document EXCEPT !.state.isDragging = FALSE], swipe))
        /\ obs' = CarouselEvent("touchend")

MouseDown ==
    /\ ~page.mouseDown
    /\ Happens(pause([Document EXCEPT !.page.mouseDown = TRUE]))
    /\ obs' = CarouselEvent("mousedown")

MouseUp ==
    \E swipe \in Swipes :
        /\ page.mouseDown
        /\ TimerFree(Document)
        /\ Happens(release([Document EXCEPT !.page.mouseDown = FALSE], swipe))
        /\ obs' = CarouselEvent("mouseup")

\* An interval timer fires: next()
AutoPlayTimerFires ==
    /\ tasks # {}
    /\ Happens(next(Document))
    /\ obs' = CarouselEvent("advance")

NextCarousel ==
    \/ CallPlay
    \/ CallPause
    \/ ClickPlayPause
    \/ ClickNextSlide
    \/ ClickPrevSlide
    \/ MouseEnter
    \/ MouseLeave
    \/ FocusIn
    \/ FocusOut
    \/ TouchStart
    \/ TouchEnd
    \/ MouseDown
    \/ MouseUp
    \/ AutoPlayTimerFires

SpecCarousel == InitCarousel /\ [][NextCarousel]_vars

(***************************************************************************)
(* js/accordion.js: one accordion of NumPanels panels that remembers its   *)
(* state. In SpecAccordion `state` holds the accordion's settings and the  *)
(* isOpen of its panels, `page` the panel that location.hash names (0 for  *)
(* none) and store.native[TRUE] the browser's sessionStorage.               *)
(***************************************************************************)
NumPanels == 3

sessionKey ==
    <<"r", "a", "r", "e", "_", "a", "c", "c", "o", "r", "d", "i", "o", "n", "_",
      "s", "t", "a", "t", "e">>
AccordionId == <<"f", "a", "q">>
\* `${accordionId}-panel-${index}`
PanelId(p) == AccordionId \o <<"-", "p", "a", "n", "e", "l", "-">> \o Digits(p - 1)

Panels == 1..NumPanels

\* a is the accordion's [settings, isOpen]
openPanel(a, p) == [a EXCEPT !.isOpen[p] = TRUE]

closePanel(a, p) == [a EXCEPT !.isOpen[p] = FALSE]

closeOthers(a, p) == [a EXCEPT !.isOpen = [q \in Panels |-> q = p /\ @[q]]]

togglePanel(a, p) ==
    IF a.isOpen[p] THEN closePanel(a, p)
    ELSE openPanel(IF ~a.settings.multiOpen THEN closeOthers(a, p) ELSE a, p)

handleToggleAll(a) ==
    LET allOpen == \A p \in Panels : a.isOpen[p]
    IN  [a EXCEPT !.isOpen = [p \in Panels |-> ~allOpen]]

handleDeepLink(a, hash) ==
    IF hash = 0 \/ a.isOpen[hash] THEN a
    ELSE openPanel(IF ~a.settings.multiOpen THEN closeOthers(a, hash) ELSE a, hash)

\* The ids of the open panels, in the order of the panels
OpenPanelIds(a) ==
    LET open == SelectSeq([p \in Panels |-> p], LAMBDA p : a.isOpen[p])
    IN  [i \in 1..Len(open) |-> JStr(PanelId(open[i]))]

saveAccordionState(s, e, a) ==
    LET stateData == JObj(<<Member(AccordionId, JArr(OpenPanelIds(a)))>>)
        put == NativeSetItem(e, s.native[TRUE], sessionKey, JSONStringify(stateData))
    IN  IF put.err # "none" THEN s ELSE [s EXCEPT !.native[TRUE] = put.items]

restoreSavedState(s, e, a) ==
    LET savedState == IF e.mode = "raise" THEN JNull
                      ELSE NativeGetItem(s.native[TRUE], sessionKey)
        stateData == JSONParse(savedState.v)
        openPanelIds == Prop(stateData.v, AccordionId)
    IN  IF savedState = JNull \/ savedState.v = <<>> THEN a
        ELSE IF ~stateData.ok THEN a
        ELSE IF openPanelIds.t # "arr" THEN a
        ELSE [a EXCEPT !.isOpen =
                [p \in Panels |->
                    @[p] \/ \E i \in 1..Len(openPanelIds.v) :
                                openPanelIds.v[i] = JStr(PanelId(p))]]

\* initAccordions: the panels closed, then the deep link, then what the
\* session has saved
initAccordions(s, e, multiOpen, hash) ==
    restoreSavedState(s, e,
        handleDeepLink([settings |-> [multiOpen |-> multiOpen],
                          isOpen |-> [p \in Panels |-> FALSE]], hash))

AccordionEvent(op) == [op |-> op]

InitAccordion ==
    \E multiOpen \in BOOLEAN : \E hash \in 0..NumPanels :
        /\ env = [mode |-> "ok", quota |-> FormQuota]
        /\ store = EmptyStore
        /\ obs = AccordionEvent("init")
        /\ state = initAccordions(store, env, multiOpen, hash)
        /\ page = [hash |-> hash]
        /\ tasks = 0
        /\ clock = 0
        /\ validation = <<>>

\* A click on a header, Enter or Space on it, or Accordion.toggle(panelId)
HeaderToggle ==
    \E p \in Panels :
        /\ state' = togglePanel(state, p)
        /\ store' = saveAccordionState(store, env, state')
        /\ obs' = AccordionEvent("toggle")
        /\ UNCHANGED <<env, page, tasks, clock, validation>>

\* A click on the accordion's toggle-all button
ToggleAll ==
    /\ state' = handleToggleAll(state)
    /\ store' = saveAccordionState(store, env, state')
    /\ obs' = AccordionEvent("toggleAll")
    /\ UNCHANGED <<env, page, tasks, clock, validation>>

\* Accordion.open(panelId)
AccordionOpen ==
    \E p \in Panels :
        /\ state' = openPanel(state, p)
        /\ obs' = AccordionEvent("open")
        /\ UNCHANGED <<store, env, page, tasks, clock, validation>>

\* Accordion.close(panelId)
AccordionClose ==
    \E p \in Panels :
        /\ state' = closePanel(state, p)
        /\ obs' = AccordionEvent("close")
        /\ UNCHANGED <<store, env, page, tasks, clock, validation>>

\* Accordion.openAll(accordionId)
AccordionOpenAll ==
    /\ state' = [state EXCEPT !.isOpen = [p \in Panels |-> TRUE]]
    /\ obs' = AccordionEvent("openAll")
    /\ UNCHANGED <<store, env, page, tasks, clock, validation>>

\* Accordion.closeAll(accordionId)
AccordionCloseAll ==
    /\ state' = [state EXCEPT !.isOpen = [p \in Panels |-> FALSE]]
    /\ obs' = AccordionEvent("closeAll")
    /\ UNCHANGED <<store, env, page, tasks, clock, validation>>

\* hashchange: the location names another panel
HashChange ==
    \E hash \in Panels :
        /\ hash # page.hash
        /\ page' = [page EXCEPT !.hash = hash]
        /\ state' = handleDeepLink(state, hash)
        /\ obs' = AccordionEvent("hashchange")
        /\ UNCHANGED <<store, env, tasks, clock, validation>>

\* The page is loaded again in the same tab: initAccordion
PageLoad ==
    /\ state' = initAccordions(store, env, state.settings.multiOpen, page.hash)
    /\ obs' = AccordionEvent("load")
    /\ UNCHANGED <<store, env, page, tasks, clock, validation>>

NextAccordion ==
    \/ HeaderToggle
    \/ ToggleAll
    \/ AccordionOpen
    \/ AccordionClose
    \/ AccordionOpenAll
    \/ AccordionCloseAll
    \/ HashChange
    \/ PageLoad

SpecAccordion == InitAccordion /\ [][NextAccordion]_vars

(***************************************************************************)
(* Properties of the storage adapter.                                      *)
(***************************************************************************)
\* The text a value is stored as reads back, parsed, as the value itself.
RoundTrips(v) == safeParse(JStr(safeStringify(v).text)) = v

\* The last call was a set whose text sits where get reads it.
SetLandedWhereRead ==
    /\ obs.op = "set"
    /\ obs.ret = JBool(TRUE)
    /\ obs.path \in {"native", "evicted", "memory"}

\* C6: after set(key, v, scope) of a storable value, get(key, scope) returns
\* a value equal to v and of v's type; a stored string comes back as that
\* same string. Stated for the sets that did not go through the capacity
\* fallback.
C6_RoundTripEqual ==
    SetLandedWhereRead => StorageGet(store, env, obs.key, obs.isSession) = obs.val

\* C7: when the native write of set(key, value) fails for lack of capacity,
\* set returns true, a following get(key) returns the written value and
\* has(key) is true, whether the retry after eviction succeeded or the
\* in-memory fallback was used. Stated for the values whose text parses back
\* to the value.
C7_QuotaWriteReadable ==
    (obs.op = "set" /\ obs.path \in {"evicted", "quotaMemory"} /\ RoundTrips(obs.val))
        => /\ obs.ret = JBool(TRUE)
           /\ StorageGet(store, env, obs.key, obs.isSession) = obs.val
           /\ StorageHas(store, env, obs.key, obs.isSession)

\* C8: when every native call raises, the operations behave as one
\* consistent in-memory store: after set(k, v), has(k) is true, keys()
\* contains k and get(k) returns v (for a value whose text parses back to
\* it); after remove(k), has(k) is false; after clear(), has(k) is false
\* for every key.
C8_MemoryStoreConsistent ==
    env.mode = "raise" =>
        /\ (obs.op = "set" /\ obs.ret = JBool(TRUE)) =>
              /\ StorageHas(store, env, obs.key, obs.isSession)
              /\ \E i \in 1..Len(StorageKeys(store, env, obs.isSession)) :
                     StorageKeys(store, env, obs.isSession)[i] = obs.key
              /\ RoundTrips(obs.val) =>
                     StorageGet(store, env, obs.key, obs.isSession) = obs.val
        /\ obs.op = "remove" => ~StorageHas(store, env, obs.key, obs.isSession)
        /\ obs.op = "clear" =>
              \A k \in StoreKeyInputs : ~StorageHas(store, env, k, obs.isSession)

(***************************************************************************)
(* Properties of the form controller.                                      *)
(***************************************************************************)
\* C1: at most one submission network call is in flight at any time,
\* whatever the interleaving of the invocations of handleSubmit at their
\* await points.
C1_SingleSubmissionInFlight == tasks.fetch <= 1

\* handleSubmit has just finished on an answer {success: true,
\* referenceNumber: r}.
AnsweredSuccess ==
    obs.op = "settled" /\ ~obs.answer.thrown /\ obs.answer.success

\* C2: when a submission receives {success: true, referenceNumber: r}, then
\* once handleSubmit has finished the autosave entry is absent from storage,
\* the field aggregate is empty, the step index is 1, the session-scoped
\* reference entry equals r, the redirect is scheduled and no error message
\* is shown.
C2_SuccessPostconditions ==
    AnsweredSuccess =>
        /\ ~StorageHas(store, env, AutoSaveCurrent, FALSE)
        /\ state.formData = <<>>
        /\ state.currentStep = 1
        /\ NativeGetItem(store.native[TRUE], SubmissionRefKey) = JStr(obs.answer.text)
        /\ page.redirect
        /\ page.error = NoMessage

\* C3: when a submission attempt fails (the network call errors, it times
\* out, or the body has success false), the end of handleSubmit shows an
\* error message, leaves the field aggregate, the step index and the stored
\* autosave entry as they were, and issues no network call.
C3_FailureLeavesStateIntact ==
    [][(obs'.op = "settled"
            /\ (obs'.cause = "network" \/ obs'.answer.thrown \/ ~obs'.answer.success))
        => /\ page'.error # NoMessage
           /\ state'.formData = state.formData
           /\ state'.currentStep = state.currentStep
           /\ StorageGet(store', env', AutoSaveCurrent, FALSE)
                = StorageGet(store, env, AutoSaveCurrent, FALSE)
           /\ tasks'.fetch <= tasks.fetch]_vars

\* C4: the continuation of handleNext changes the current step only from i
\* to i+1 and only when the fields of step i validated while step i was
\* current; when they failed it leaves the current step unchanged. This
\* covers overlapping calls of next.
C4_NextGatedByValidation ==
    [][(tasks.mq # <<>> /\ ~tasks'.open /\ Head(tasks.mq).kind = "next")
        => /\ state'.currentStep # state.currentStep
                => /\ state'.currentStep = state.currentStep + 1
                   /\ Head(tasks.mq).valid
                   /\ Head(tasks.mq).step = state.currentStep
           /\ ~Head(tasks.mq).valid => state'.currentStep = state.currentStep]_vars

\* The page as it was loaded: no step has been completed.
FreshPage == state = InitialState /\ page = InitialPage /\ tasks = InitialTasks

\* C5: goToStep(j) changes the current step only when j is at most the
\* highest step completed so far: on the page as loaded, where no step has
\* been completed, goToStep(j) leaves the current step unchanged.
C5_JumpGatedByCompletedSteps ==
    [][\A j \in 1..(NumSteps + 1) :
          (FreshPage /\ state' = goToStep(World, j).state
                     /\ page' = goToStep(World, j).page)
              => state'.currentStep = state.currentStep]_vars

\* C9: with storage disabled, a submission answered with success ends on
\* the success path: the redirect is scheduled and no error message is
\* shown.
C9_DisabledStorageSuccessPath ==
    (env.mode = "raise" /\ AnsweredSuccess)
        => page.redirect /\ page.error = NoMessage

\* The drafts Storage.get returns for draftsKey in a store.
DraftList(s, e) == storedDrafts([store |-> s, env |-> e]).v

\* The instant a draft was created at, read back from its createdAt.
CreatedAt(d) ==
    CHOOSE n \in 0..MaxDraftSaves : Prop(d, NameCreatedAt) = JStr(toISOString(n))

MostRecentFirst(list) ==
    \A i, j \in 1..Len(list) : i < j => CreatedAt(list[i]) > CreatedAt(list[j])

FirstOf(list, n) == SubSeq(list, 1, IF Len(list) < n THEN Len(list) ELSE n)

\* What the claim says of one step of the page, from the list stored
\* before to the list stored after it.
DraftStepCapped(before, after, saved, id) ==
    /\ Len(after) <= maxDrafts
    /\ MostRecentFirst(after)
    /\ saved =>
        /\ Len(after) > 0
        /\ Prop(after[1], NameId) = JStr(id)
        /\ after = FirstOf(<<after[1]>> \o before, maxDrafts)

\* C10: after every saveDraft and deleteDraft, the stored draft list has at
\* most maxDrafts entries and is ordered most recent first; a save puts the
\* new draft in front of the drafts stored before and keeps the first
\* maxDrafts of them, dropping exactly the oldest when the list was full.
C10_DraftListCapped ==
    [][DraftStepCapped(DraftList(store, env), DraftList(store', env'),
                       obs' = DraftSaved, generateDraftId(clock))]_vars

\* What loadDraft of `draft` has to leave: the aggregate equal to the
\* draft's formData, each field showing its value there or nothing, and the
\* draft's step current.
DraftRestored(draft, st, pg) ==
    /\ st.formData = Prop(draft, NameFormData).v
    /\ st.currentStep = Prop(draft, NameCurrentStep).v
    /\ \A i \in 1..NumSteps :
          pg.fields[i] =
            IF Prop(draft, NameFormData) = Undef
               \/ PropFrom(Prop(draft, NameFormData).v, FieldName(i), 1) = Undef
            THEN <<>>
            ELSE PropFrom(Prop(draft, NameFormData).v, FieldName(i), 1).v

\* C11: loadDraft of a stored draft leaves the aggregate equal to the field
\* values F the draft was saved with, every field showing its value in F
\* (none where F has no value), and the current step equal to the saved one.
C11_DraftRoundTrip ==
    [][obs'.op = "loadDraft" =>
         DraftRestored(findDraft(DraftList(store, env), obs'.id, 1),
                       state', page')]_vars

(***************************************************************************)
(* Properties of the validation rules.                                     *)
(***************************************************************************)
\* C13: validateField returns true exactly when every rule kept for the
\* field passes on the field's current value, whether or not the field is
\* required.
C13_ValidIffEveryRulePasses ==
    obs.op = "validateField" =>
        (obs.result.isValid <=>
            \A i \in 1..Len(obs.rules) : RulePassed(obs.rules[i], obs.field))

\* An optional field with an empty value was judged by a rule it has, and
\* failed it.
C13_OptionalEmptyJudged ==
    /\ obs.op = "validateField"
    /\ ~hasRequiredRule(obs.rules)
    /\ obs.field.value = <<>>
    /\ Len(obs.rules) >= 2
    /\ ~obs.result.isValid

\* The field's only rule is a minimum length of at least one.
OnlyMinLength ==
    /\ obs.op = "validateField"
    /\ Len(obs.rules) = 1
    /\ obs.rules[1].type = "minLength"
    /\ obs.rules[1].value >= 1

\* C16: with a minimum length L >= 1 as the only rule, a value of length
\* L - 1 fails validation and a value of length L passes it, the empty
\* value and values with blanks at either end included.
C16_MinLengthBoundary ==
    OnlyMinLength =>
        /\ Len(obs.field.value) = obs.rules[1].value - 1 => ~obs.result.isValid
        /\ Len(obs.field.value) = obs.rules[1].value => obs.result.isValid

(***************************************************************************)
(* Properties of the validation module on the form page.                   *)
(***************************************************************************)
RequiredFields == 1..NumSteps

\* C12: while a required field is empty the submit control is disabled and
\* the completion percentage is below 100, and the submit control is
\* enabled only when every required field is valid.
C12_SubmitDisabledUntilValid ==
    /\ (\E f \in RequiredFields : page.fields[f] = <<>>) =>
           page.submitBtn.disabled /\ validation.completionPercentage < 100
    /\ ~page.submitBtn.disabled =>
           \A f \in RequiredFields : validateField(page.fields[f])

\* The first message of the rules field f fails as the page stands.
FirstMessage(w, f) ==
    validateFieldRules(fieldRules(PageField(w, f)), PageField(w, f)).errors[1]

FailedAndShown(w, fields) ==
    \A f \in fields :
        ~validateField(w.page.fields[f]) =>
            /\ f \in w.validation.touched
            /\ w.validation.shown[f] = FirstMessage(w, f)

\* C14: when next or submit was asked for and a field validated for it
\* fails, the field is touched and shows the message of its first failing
\* rule.
C14_BlockedFieldShowsMessage ==
    [][obs'.op = "asked" =>
          FailedAndShown([page |-> page', validation |-> validation'], obs'.fields)]_vars

Silent(f) ==
    /\ validation.shown[f] = NoError
    /\ validation.marking[f] # "invalid"
    /\ validation.errors[f] = <<>>

RefShape(text) ==
    /\ Len(text) = 16
    /\ SubSeq(text, 1, 5) = <<"R", "A", "R", "E", "-">>
    /\ text[12] = "-"
    /\ \A i \in (6..11) \cup (13..16) : text[i] \in DigitSet

Succeeded(response, body) ==
    /\ response.statusCode = 200
    /\ body.ok
    /\ Prop(body.v, NameSuccess) = JBool(TRUE)
    /\ Prop(body.v, NameReferenceNumber).t = "str"
    /\ RefShape(Prop(body.v, NameReferenceNumber).v)

\* C18: a request whose method is not POST gets status 405, and every POST
\* request gets status 200 with success true and a reference number of the
\* shape RARE-YYYYMM-NNNN, whatever its headers and body.
C18_ResponseByMethodOnly ==
    obs.op = "response" =>
        IF obs.event.httpMethod # "POST" THEN obs.response.statusCode = 405
        ELSE Succeeded(obs.response, JSONParse(obs.response.body))

(***************************************************************************)
(* Properties of autosave.                                                 *)
(***************************************************************************)
\* The autosave entry holds the aggregate and the step of st.
SnapshotOf(saved, st) ==
    /\ Prop(saved, NameFormData) = JObj(st.formData)
    /\ Prop(saved, NameCurrentStep) = JNum(st.currentStep)

\* C19: every autosave write comes when autoSaveDelay has passed since the
\* last input or change event, once for the events since the write before,
\* and stores the aggregate and the step as they are then.
C19_DebouncedLastWriteWins ==
    [][obs'.op = "write" =>
          /\ clock >= obs.requested + DelayTicks
          /\ obs.fresh
          /\ SnapshotOf(StorageGet(store', env', AutoSaveCurrent, FALSE), state')]_vars

(***************************************************************************)
(* Properties of the form over a damaged store.                            *)
(***************************************************************************)
\* The page is as initFormHandler leaves it over a store with the two keys
\* absent, and the list shows no draft.
NothingRestored ==
    /\ state = InitialState
    /\ page = InitialPage
    /\ loadDraftsList(World, NothingListed) # DraftItems

\* The list stored under draftsKey is an array that holds the draft saved
\* at instant n.
DraftStored(s, e, n) ==
    LET got == StorageGet(s, e, draftsKey, FALSE)
    IN  got.t = "arr" /\ \E i \in 1..Len(got.v) : Prop(got.v[i], NameId) = JStr(generateDraftId(n))

\* C17: over a store whose autosave or drafts entry is damaged, the page
\* opens with nothing restored and no draft listed, and every saveDraft
\* that follows stores a list that holds the new draft.
C17_DamagedEntryAsAbsent ==
    [][/\ obs.op = "opened" => NothingRestored
       /\ obs'.op = "saveDraft" => DraftStored(store', env', clock)]_vars

(***************************************************************************)
(* Properties of the step index over stored step values.                   *)
(***************************************************************************)
\* handleNext, called on the last step with the step valid, goes on after
\* its await, the last step still the current one.
NextGoesOnAtLastStep ==
    /\ tasks.mq # <<>>
    /\ Head(tasks.mq).kind = "next"
    /\ Head(tasks.mq).valid
    /\ Head(tasks.mq).step = NumSteps
    /\ state.currentStep = NumSteps
    /\ tasks'.mq # tasks.mq
    /\ Len(tasks'.mq) <= Len(tasks.mq)

\* handleSubmit was called: it waits on validateAllSteps, or it returned at
\* once because a submission is under way.
SubmissionTriggered ==
    \/ state.isSubmitting
    \/ /\ Len(tasks'.mq) = Len(tasks.mq)
       /\ tasks'.mq[Len(tasks'.mq)].kind = "submit"

\* C20: next on the last step, the step valid, triggers a submission and
\* leaves the step where it is, and the step index is one of 1..NumSteps
\* whatever step the stored autosave entry and the stored draft hold.
C20_StepStaysInRange ==
    /\ [](state.currentStep \in 1..NumSteps)
    /\ [][NextGoesOnAtLastStep
            => state'.currentStep = NumSteps /\ SubmissionTriggered]_vars

(***************************************************************************)
(* Properties of a submission under way.                                   *)
(***************************************************************************)
\* C21: every submission that has set the busy flag comes to its end: the
\* flag is cleared and the submit button can be used again, whether the
\* endpoint answers, fails, or never answers.
C21_EverySubmissionEnds ==
    state.isSubmitting ~> (~state.isSubmitting /\ ~page.submitBtn.disabled)

(***************************************************************************)
(* Properties of the completion percentage.                                *)
(***************************************************************************)
\* C22: after a validation pass the completion of a form with r required
\* fields, v of them valid, is the integer nearest to 100 * v / r, and 100
\* when r = 0; it is one of 0..100.
C22_CompletionIsRoundedShare ==
    obs.op = "completion" =>
        /\ obs.completion \in 0..100
        /\ obs.completion = IF obs.required = 0 THEN 100
                            ELSE PercentageExact(obs.valid, obs.required)

(***************************************************************************)
(* Properties of a repeated set.                                           *)
(***************************************************************************)
\* The call that ends is the set the call before it was.
SetAgain ==
    /\ obs.op = "set"
    /\ obs'.op = "set"
    /\ obs'.key = obs.key
    /\ obs'.isSession = obs.isSession
    /\ obs'.val = obs.val

\* C23: a set that repeats the set before it, key, value and scope the
\* same, leaves the store as the first left it, and get returns after it
\* what it returned after the first.
C23_SetIsIdempotent ==
    [][SetAgain =>
          /\ store' = store
          /\ StorageGet(store', env', obs.key, obs.isSession)
                = StorageGet(store, env, obs.key, obs.isSession)]_vars

(***************************************************************************)
(* Properties of the relationship rule.                                    *)
(***************************************************************************)
\* The places of s that hold something else than a blank.
Inked(s) == {k \in 1..Len(s) : s[k] # " "}

\* The length of s without the blanks at its ends.
TrimmedLength(s) ==
    IF Inked(s) = {} THEN 0
    ELSE (CHOOSE k \in Inked(s) : \A j \in Inked(s) : j <= k)
         - (CHOOSE k \in Inked(s) : \A j \in Inked(s) : j >= k) + 1

\* The words of s: its runs of something else than blanks.
Words(s) == Cardinality({k \in Inked(s) : k = 1 \/ s[k - 1] = " "})

\* A relationship field with no other rule was validated.
RelationJudged ==
    /\ obs.op = "validateField"
    /\ obs.field.name = "relationship"

\* C24: the relationship rule accepts a value exactly when the value
\* without the blanks at its ends has two words or more and ten characters
\* or more; "coworker" fails and "my direct manager" passes.
C24_RelationshipWordsAndLength ==
    RelationJudged =>
        /\ obs.result.isValid <=>
              (Words(obs.field.value) >= 2
                  /\ TrimmedLength(obs.field.value) >= 10)
        /\ obs.field.value = Coworker => ~obs.result.isValid
        /\ obs.field.value = MyDirectManager => obs.result.isValid

\* "my direct manager" was accepted.
C24_ManagerAccepted ==
    /\ RelationJudged
    /\ obs.field.value = MyDirectManager
    /\ obs.result.isValid

(***************************************************************************)
(* Properties of the autosave entry after a successful submission.         *)
(***************************************************************************)
\* C25: once a submission has succeeded, and as long as the user does not
\* edit the form again, the autosave entry is absent: no autosave timer
\* started before the success writes a snapshot after the entry was
\* cleared.
C25_ClearedEntryStaysAbsent ==
    SubmissionSucceeded => ~StorageHas(store, env, AutoSaveCurrent, FALSE)

(***************************************************************************)
(* Properties of a read after initLocalStorage has run again.              *)
(***************************************************************************)
\* C26: get(key) returns the value of the most recent set(key) of the page
\* load, whether or not initLocalStorage ran between the two calls and
\* changed what the adapter holds native storage to be. Stated for the
\* values whose text parses back to the value, and for the sets that did
\* not go through the capacity fallback.
C26_ReadFollowsWrite ==
    (obs.op = "setGet" /\ RoundTrips(obs.val)
        /\ obs.path \in {"native", "evicted", "memory"})
    => obs.ret = obs.val

(***************************************************************************)
(* Properties of the dark mode module.                                     *)
(***************************************************************************)
\* The last call was a toggle, or a setTheme of one of the two themes.
ThemeChosen ==
    \/ obs.op = "toggle"
    \/ obs.op = "setTheme" /\ obs.theme \in {darkValue, lightValue}

\* C27: after a toggle and after a setTheme, a theme transition running or
\* not, the theme kept in localStorage is the applied theme that getTheme
\* reports.
C27_PersistedIsApplied ==
    ThemeChosen => getSavedTheme(store, env) = JStr(state.currentTheme)

(***************************************************************************)
(* Properties of FormValidator.reset.                                      *)
(***************************************************************************)
\* Field f is touched, and has the errors, that it had before the step.
FieldLeftAlone(f) ==
    /\ (f \in validation'.touched) <=> (f \in validation.touched)
    /\ validation'.errors[f] = validation.errors[f]

\* C28: FormValidator.reset(formId) changes the named form only: the
\* fields of the other forms are touched after the call exactly when they
\* were before it, and have the errors they had.
C28_ResetOnlyNamedForm ==
    [][obs'.op = "reset" =>
          \E form \in TouchForms :
              \A f \in 1..NumSteps :
                  validation.formId[f] # form => FieldLeftAlone(f)]_vars

(***************************************************************************)
(* Properties of the carousel's auto-play.                                 *)
(***************************************************************************)
\* C29: the carousel has at most one active auto-play timer, and none from
\* a pause() until the next play(): no slide advances by itself while the
\* carousel is paused, whatever play, pause, hover, focus, touch and drag
\* events came before.
C29_OneAutoPlayTimer ==
    /\ Cardinality(tasks) <= 1
    /\ ~state.isPlaying => tasks = {}

(***************************************************************************)
(* Properties of the accordion.                                            *)
(***************************************************************************)
OpenPanels == {p \in Panels : state.isOpen[p]}

\* C30: in an accordion that is not multi-open at most one panel is open,
\* whatever header toggles, toggle-all clicks, Accordion.open and openAll
\* calls, deep links and restores of the saved state came before.
C30_OnePanelOpen ==
    ~state.settings.multiOpen => Cardinality(OpenPanels) <= 1

====
